---- MODULE Spec2Model ----
(***************************************************************************)
(* Model of the structural diff engine of webdiff (src/js/utils.js,        *)
(* DiffEngine).  DiffEngine.compare is invoked on two JSON documents, then *)
(* again on the same documents swapped or with their null-valued keys left *)
(* out; every call is logged with its arguments and its result.  The       *)
(* results are aggregated into statistics and transformation descriptors.  *)
(* Documents are loaded into the store (src/js/store.js), which compares   *)
(* them, and SessionManager (src/unnamed/part_002) saves the store as      *)
(* sessions in localStorage, loads, deletes and imports sessions.          *)
(***************************************************************************)
EXTENDS Integers, Sequences, FiniteSets, TLC

(***************************************************************************)
(* Bounds of the model.                                                    *)
(***************************************************************************)
\* largest number of nodes (leaves, objects, arrays) of a compared document
MaxNodes == 3
\* largest number of compare calls in one behaviour
MaxCalls == 2
\* largest numbers of unchanged, modified, added and removed elements of the
\* long arrays whose results are aggregated
MaxUnchanged == 22
MaxModified == 4
MaxAdded == 2
MaxRemoved == 2
\* largest numbers of sessions saved, of changes to the store, and of
\* sessions loaded, deleted or imported in one behaviour
MaxSaves == 2
MaxEdits == 3
MaxOthers == 2
\* the same where the history is filled
CapSaves == 22
CapEdits == 1
CapOthers == 1
\* largest numbers of documents loaded or cleared and of operations on the
\* file library in one behaviour
LibraryEdits == 2
LibraryOps == 3
\* largest length of the arrays whose changes are navigated and searched
MaxItems == 3
\* largest numbers of changes of the store and of requests sent to the API
\* in one behaviour
ApiEdits == 3
ApiSends == 3

(***************************************************************************)
(* JSON values.  An object keeps its keys in insertion order, as           *)
(* Object.keys reports them; a primitive keeps its JavaScript type so that *)
(* 1 and "1" are different values.                                         *)
(***************************************************************************)
Null == [kind |-> "null"]
Prim(t, v) == [kind |-> "primitive", jstype |-> t, val |-> v]
Arr(items) == [kind |-> "array", items |-> items]
Obj(entries) == [kind |-> "object", entries |-> entries]

\* identifier keys, and the keys of the documents with unusual keys
Keys == {"a", "b"}
AnyKeys == {"", "a", "b", "a.b"}
\* the number 1, the string "1" and null
Leaves == {Null, Prim("number", "1"), Prim("string", "1")}

\* the sequences over S without repetition, of length n
RECURSIVE DistinctSeqs(_, _)
DistinctSeqs(S, n) ==
    IF n = 0 THEN {<<>>}
    ELSE UNION {{<<k>> \o r : r \in DistinctSeqs(S \ {k}, n - 1)} : k \in S}

\* the JSON values of exactly n nodes over the keys K, and the non-empty
\* sequences of such values of n nodes in total
RECURSIVE ValuesOfSize(_, _, _), ValueSeqs(_, _, _)
ValuesOfSize(K, L, n) ==
    IF n <= 0 THEN {}
    ELSE IF n = 1 THEN L \cup {Arr(<<>>), Obj(<<>>)}
    ELSE {Arr(s) : s \in ValueSeqs(K, L, n - 1)}
         \cup UNION {{Obj([i \in 1..Len(s) |-> [key |-> ks[i], val |-> s[i]]])
                       : ks \in DistinctSeqs(K, Len(s))}
                     : s \in ValueSeqs(K, L, n - 1)}
ValueSeqs(K, L, n) ==
    IF n <= 0 THEN {}
    ELSE {<<v>> : v \in ValuesOfSize(K, L, n)}
         \cup UNION {{<<v>> \o r : v \in ValuesOfSize(K, L, k), r \in ValueSeqs(K, L, n - k)}
                     : k \in 1..(n - 1)}

ValuesUpTo(K, L, n) == UNION {ValuesOfSize(K, L, m) : m \in 1..n}

\* the documents compared with each other, and the larger ones compared with
\* themselves
Docs == ValuesUpTo(Keys, Leaves, MaxNodes)
SameDocs == ValuesUpTo(Keys, Leaves, MaxNodes + 1)
\* the same with unusual keys, over the single leaf 1
KeyedDocs == ValuesUpTo(AnyKeys, {Prim("number", "1")}, MaxNodes)
SameKeyedDocs == ValuesUpTo(AnyKeys, {Prim("number", "1")}, MaxNodes + 1)

(***************************************************************************)
(* DiffEngine (src/js/utils.js).                                           *)
(***************************************************************************)
\* Object.keys(obj), obj[key] and `key in Object.keys(obj)`
ObjectKeys(obj) == [i \in 1..Len(obj.entries) |-> obj.entries[i].key]
HasKey(obj, key) == \E i \in 1..Len(obj.entries) : obj.entries[i].key = key
Get(obj, key) ==
    LET i == CHOOSE j \in 1..Len(obj.entries) : obj.entries[j].key = key
    IN  obj.entries[i].val

\* oldVal !== newVal on two primitives: same JavaScript type and same value
LooseEqual(a, b) == a.val = b.val
StrictEqual(a, b) == a.jstype = b.jstype /\ a.val = b.val

getType(value) ==
    IF value.kind = "null" THEN "null"
    ELSE IF value.kind = "array" THEN "array"
    ELSE IF value.kind = "object" THEN "object"
    ELSE "primitive"

\* the changes accumulator of compare
EmptyChanges == [added |-> <<>>, removed |-> <<>>, modified |-> <<>>, unchanged |-> <<>>]

\* const newPath = path ? `${path}.${key}` : key
KeyOnly(path, key) == key
KeyPath(path, key) == IF path # "" THEN path \o "." \o key ELSE key
\* const newPath = `${path}[${i}]`, with i counted from 0
IndexPath(path, i) == path \o "[" \o ToString(i) \o "]"

\* new Set([...oldKeys, ...newKeys]) in its iteration order (OldKeysOnly and
\* NewKeysOnly leave keys out, NewKeysFirst visits the new keys first)
OldKeysOnly(oldKeys, newKeys) == oldKeys
NewKeysOnly(oldKeys, newKeys) == newKeys
NewKeysFirst(oldKeys, newKeys) ==
    newKeys \o SelectSeq(oldKeys, LAMBDA k : \A i \in 1..Len(newKeys) : newKeys[i] # k)
AllKeys(oldKeys, newKeys) ==
    oldKeys \o SelectSeq(newKeys, LAMBDA k : \A i \in 1..Len(oldKeys) : oldKeys[i] # k)

RECURSIVE deepCompare(_, _, _, _), compareObjects(_, _, _, _), compareArrays(_, _, _, _)
RECURSIVE compareObjectKeys(_, _, _, _, _), compareArrayFrom(_, _, _, _, _)

\* changes.added.push(..), changes.removed.push(..), changes.unchanged.push(..)
\* (addEach reports the added value and then each of its descendants again)
RECURSIVE addEach(_, _, _)
addEach(changes, path, value) ==
    LET first == [changes EXCEPT !.added = Append(@, [path |-> path, value |-> value, type |-> getType(value)])]
    IN  IF value.kind = "object" THEN
            LET F[i \in 0..Len(value.entries)] ==
                    IF i = 0 THEN first
                    ELSE addEach(F[i - 1], KeyPath(path, value.entries[i].key), value.entries[i].val)
            IN  F[Len(value.entries)]
        ELSE IF value.kind = "array" THEN
            LET F[i \in 0..Len(value.items)] ==
                    IF i = 0 THEN first
                    ELSE addEach(F[i - 1], IndexPath(path, i - 1), value.items[i])
            IN  F[Len(value.items)]
        ELSE first
pushAdded(changes, path, value) ==
    [changes EXCEPT !.added = Append(@, [path |-> path, value |-> value, type |-> getType(value)])]
pushRemoved(changes, path, value) ==
    [changes EXCEPT !.removed = Append(@, [path |-> path, value |-> value, type |-> getType(value)])]
pushUnchanged(changes, path, value) ==
    [changes EXCEPT !.unchanged = Append(@, [path |-> path, value |-> value, type |-> getType(value)])]

\* deepCompare when exactly one of the two values is null (oneNullSwapped
\* confuses the two sides, oneNullAsTypeChange goes on to the type check)
oneNullSwapped(oldVal, newVal, path, changes) ==
    IF oldVal = Null THEN pushRemoved(changes, path, newVal)
    ELSE pushAdded(changes, path, oldVal)
oneNullAsTypeChange(oldVal, newVal, path, changes) ==
    [changes EXCEPT !.modified = Append(@, [path |-> path, oldValue |-> oldVal, newValue |-> newVal,
                                            oldType |-> getType(oldVal), newType |-> getType(newVal)])]
oneNull(oldVal, newVal, path, changes) ==
    IF oldVal = Null THEN pushAdded(changes, path, newVal)
    ELSE pushRemoved(changes, path, oldVal)

\* deepCompare when the two values are of different types (typeChangedSwapped
\* confuses the two types)
typeChangedSwapped(oldVal, newVal, path, changes) ==
    [changes EXCEPT !.modified = Append(@, [path |-> path, oldValue |-> oldVal, newValue |-> newVal,
                                            oldType |-> getType(newVal), newType |-> getType(oldVal)])]
typeChanged(oldVal, newVal, path, changes) ==
    [changes EXCEPT !.modified = Append(@, [path |-> path, oldValue |-> oldVal, newValue |-> newVal,
                                            oldType |-> getType(oldVal), newType |-> getType(newVal)])]

\* deepCompare on two primitives (comparePrimitivesLoosely compares with ==
\* in place of !==, comparePrimitivesChangedOnly records no unchanged leaf)
comparePrimitivesLoosely(oldVal, newVal, path, changes) ==
    IF ~LooseEqual(oldVal, newVal) THEN
        [changes EXCEPT !.modified = Append(@, [path |-> path, oldValue |-> oldVal, newValue |-> newVal,
                                                type |-> getType(oldVal)])]
    ELSE pushUnchanged(changes, path, oldVal)
comparePrimitivesChangedOnly(oldVal, newVal, path, changes) ==
    IF ~StrictEqual(oldVal, newVal) THEN
        [changes EXCEPT !.modified = Append(@, [path |-> path, oldValue |-> oldVal, newValue |-> newVal,
                                                type |-> getType(oldVal)])]
    ELSE changes
comparePrimitives(oldVal, newVal, path, changes) ==
    IF ~StrictEqual(oldVal, newVal) THEN
        [changes EXCEPT !.modified = Append(@, [path |-> path, oldValue |-> oldVal, newValue |-> newVal,
                                                type |-> getType(oldVal)])]
    ELSE pushUnchanged(changes, path, oldVal)

deepCompare(oldVal, newVal, path, changes) ==
    LET oldType == getType(oldVal)
        newType == getType(newVal)
    IN
    IF oldVal = Null /\ newVal = Null THEN pushUnchanged(changes, path, Null)
    ELSE IF oldVal = Null \/ newVal = Null THEN oneNull(oldVal, newVal, path, changes)
    ELSE IF oldType # newType THEN typeChanged(oldVal, newVal, path, changes)
    ELSE IF oldType = "object" THEN compareObjects(oldVal, newVal, path, changes)
    ELSE IF oldType = "array" THEN compareArrays(oldVal, newVal, path, changes)
    ELSE comparePrimitives(oldVal, newVal, path, changes)

\* the branch of compareObjects for a key of the old object only (removeEach
\* reports the removed value and then each of its descendants again)
RECURSIVE removeEach(_, _, _)
removeEach(value, path, changes) ==
    IF value.kind = "object" THEN
        LET F[i \in 0..Len(value.entries)] ==
                IF i = 0 THEN pushRemoved(changes, path, value)
                ELSE removeEach(value.entries[i].val, KeyPath(path, value.entries[i].key), F[i - 1])
        IN  F[Len(value.entries)]
    ELSE IF value.kind = "array" THEN
        LET F[i \in 0..Len(value.items)] ==
                IF i = 0 THEN pushRemoved(changes, path, value)
                ELSE removeEach(value.items[i], IndexPath(path, i - 1), F[i - 1])
        IN  F[Len(value.items)]
    ELSE pushRemoved(changes, path, value)
removedKey(value, newPath, changes) == pushRemoved(changes, newPath, value)

\* the body of allKeys.forEach in compareObjects, for the keys still to visit
compareObjectKeys(oldObject, newObject, path, keys, changes) ==
    IF keys = <<>> THEN changes
    ELSE
        LET key == Head(keys)
            newPath == KeyPath(path, key)
            hasOld == HasKey(oldObject, key)
            hasNew == HasKey(newObject, key)
            after ==
                IF hasOld /\ hasNew THEN
                    deepCompare(Get(oldObject, key), Get(newObject, key), newPath, changes)
                ELSE IF hasOld THEN removedKey(Get(oldObject, key), newPath, changes)
                ELSE pushAdded(changes, newPath, Get(newObject, key))
        IN  compareObjectKeys(oldObject, newObject, path, Tail(keys), after)

compareObjects(oldObject, newObject, path, changes) ==
    compareObjectKeys(oldObject, newObject, path,
                      AllKeys(ObjectKeys(oldObject), ObjectKeys(newObject)), changes)

Min(a, b) == IF a <= b THEN a ELSE b
Max(a, b) == IF a >= b THEN a ELSE b

\* the body of the loop of compareArrays, for the index i (counted from 0)
compareArrayAt(oldArr, newArr, path, i, changes) ==
    LET newPath == IndexPath(path, i)
    IN  IF i < Len(oldArr.items) /\ i < Len(newArr.items) THEN
            deepCompare(oldArr.items[i + 1], newArr.items[i + 1], newPath, changes)
        ELSE IF i < Len(oldArr.items) THEN pushRemoved(changes, newPath, oldArr.items[i + 1])
        ELSE pushAdded(changes, newPath, newArr.items[i + 1])

\* the loop of compareArrays from index i (counted from 0) on (the changes
\* of one iteration are evaluated before the next iteration starts)
compareArrayFrom(oldArr, newArr, path, i, changes) ==
    LET maxLength == Max(Len(oldArr.items), Len(newArr.items))
        after == compareArrayAt(oldArr, newArr, path, i, changes)
    IN  IF ~(i < maxLength) THEN changes
        ELSE IF DOMAIN after = DOMAIN changes
             THEN compareArrayFrom(oldArr, newArr, path, i + 1, after)
             ELSE after

compareArraysFromOne(oldArr, newArr, path, changes) == compareArrayFrom(oldArr, newArr, path, 1, changes)
compareArrays(oldArr, newArr, path, changes) == compareArrayFrom(oldArr, newArr, path, 0, changes)

compare(oldDoc, newDoc) == deepCompare(oldDoc, newDoc, "", EmptyChanges)

(***************************************************************************)
(* The statistics of a result (DiffEngine.calculateStats).                 *)
(***************************************************************************)
\* Math.round(num / den) for num >= 0 and den > 0: the nearest integer, the
\* upper one of two equally near (floor takes the lower integer always)
floor(num, den) == num \div den
round(num, den) == (2 * num + den) \div (2 * den)

\* Math.round((changed / total) * 100).  The quotient and the product are
\* doubles; their error is far below the distance of 100 * changed / total
\* from the next odd half unless it is one, and for total < 40 it is one
\* only at an odd number of eighths, where quotient and product are exact.
calculateChangePercentage(changes) ==
    LET total == Len(changes.added) + Len(changes.removed)
                 + Len(changes.modified) + Len(changes.unchanged)
        changed == Len(changes.added) + Len(changes.removed) + Len(changes.modified)
    IN  IF total = 0 THEN 0 ELSE round(changed * 100, total)

\* (calculateStatsOfAll counts the unchanged records as changes too)
calculateStatsOfAll(changes) ==
    [totalChanges |-> Len(changes.added) + Len(changes.removed)
                      + Len(changes.modified) + Len(changes.unchanged),
     added |-> Len(changes.added),
     removed |-> Len(changes.removed),
     modified |-> Len(changes.modified),
     unchanged |-> Len(changes.unchanged),
     changePercentage |-> calculateChangePercentage(changes)]
calculateStats(changes) ==
    [totalChanges |-> Len(changes.added) + Len(changes.removed) + Len(changes.modified),
     added |-> Len(changes.added),
     removed |-> Len(changes.removed),
     modified |-> Len(changes.modified),
     unchanged |-> Len(changes.unchanged),
     changePercentage |-> calculateChangePercentage(changes)]

(***************************************************************************)
(* The transformation descriptors of a result                              *)
(* (DiffEngine.generateJSONataQueries).                                    *)
(***************************************************************************)
\* strs.join(sep)
RECURSIVE join(_, _)
join(strs, sep) ==
    IF strs = <<>> THEN ""
    ELSE IF Len(strs) = 1 THEN strs[1]
    ELSE strs[1] \o sep \o join(Tail(strs), sep)

\* JSON.stringify(value)
RECURSIVE stringify(_)
stringify(value) ==
    IF value.kind = "null" THEN "null"
    ELSE IF value.kind = "primitive" THEN
        IF value.jstype = "string" THEN "\"" \o value.val \o "\"" ELSE value.val
    ELSE IF value.kind = "array" THEN
        "[" \o join([i \in 1..Len(value.items) |-> stringify(value.items[i])], ",") \o "]"
    ELSE "{" \o join([i \in 1..Len(value.entries) |->
                         "\"" \o value.entries[i].key \o "\":" \o stringify(value.entries[i].val)], ",")
             \o "}"

\* str.length > maxLength ? str.substring(0, maxLength) + '...' : str
truncate(str, maxLength) ==
    IF Len(str) > maxLength THEN SubSeq(str, 1, maxLength) \o "..." ELSE str
\* Utils.formatValue(value, maxLength)
formatValue(value, maxLength) ==
    IF value.kind = "null" THEN "null"
    ELSE IF value.kind \in {"object", "array"} THEN truncate(stringify(value), maxLength)
    ELSE truncate(value.val, maxLength)

additionOf(change) ==
    [type |-> "addition",
     path |-> change.path,
     query |-> "$ ~> | $ | { \"" \o change.path \o "\": " \o stringify(change.value) \o " } |",
     description |-> "Add field " \o change.path,
     value |-> change.value]
deletionOf(change) ==
    [type |-> "deletion",
     path |-> change.path,
     query |-> "$ ~> | $ | { \"" \o change.path \o "\": undefined } |",
     description |-> "Remove field " \o change.path,
     oldValue |-> change.value]
modificationOf(change) ==
    [type |-> "modification",
     path |-> change.path,
     query |-> "$ ~> | $ | { \"" \o change.path \o "\": " \o stringify(change.newValue) \o " } |",
     description |-> "Change " \o change.path \o " from " \o formatValue(change.oldValue, 50)
                     \o " to " \o formatValue(change.newValue, 50),
     oldValue |-> change.oldValue,
     newValue |-> change.newValue]

\* (generateQueriesWithoutDeletions skips the removed records,
\* generateQueriesModificationsFirst starts with the modified ones)
generateQueriesWithoutDeletions(changes) ==
    [i \in 1..Len(changes.added) |-> additionOf(changes.added[i])]
    \o [i \in 1..Len(changes.modified) |-> modificationOf(changes.modified[i])]
generateQueriesModificationsFirst(changes) ==
    [i \in 1..Len(changes.modified) |-> modificationOf(changes.modified[i])]
    \o [i \in 1..Len(changes.added) |-> additionOf(changes.added[i])]
    \o [i \in 1..Len(changes.removed) |-> deletionOf(changes.removed[i])]
generateJSONataQueries(changes) ==
    [i \in 1..Len(changes.added) |-> additionOf(changes.added[i])]
    \o [i \in 1..Len(changes.removed) |-> deletionOf(changes.removed[i])]
    \o [i \in 1..Len(changes.modified) |-> modificationOf(changes.modified[i])]

(***************************************************************************)
(* The store (src/js/store.js): the two documents, their validation        *)
(* results, the API endpoint, and the diff of the documents.  The texts of *)
(* the documents and their object statistics, which the store keeps beside *)
(* them, are left out.                                                     *)
(***************************************************************************)
\* the documents loaded, a validation result, an API endpoint
StoreDocs == {Obj(<<[key |-> "a", val |-> Prim("number", "1")]>>),
              Obj(<<[key |-> "a", val |-> Prim("string", "1")]>>)}
\* the documents a user loads: the same, and the number 0
InputDocs == StoreDocs \cup {Prim("number", "0")}
Validations == {[valid |-> TRUE]}
\* the results of validating a document that a user loads
InputValidations == Validations \cup {[valid |-> FALSE]}
Endpoints == {"https://api"}

\* a document counts as true in a condition: not null, 0, '' or false
Truthy(value) ==
    /\ value # Null
    /\ ~(value.kind = "primitive" /\ value.val \in {"0", "", "false"})

\* JSON.parse(text), for the text of a document that is loaded (IsJSON: the text parses)
IsJSON(text) == \E d \in InputDocs \cup {Null} : stringify(d) = text
parseJSON(text) == CHOOSE d \in InputDocs \cup {Null} : stringify(d) = text

\* no file selected (null)
NoFile == ""

InitialStore ==
    [inputJSON |-> Null, inputValidation |-> Null,
     outputJSON |-> Null, outputValidation |-> Null,
     apiEndpoint |-> "",
     diffResult |-> Null, diffStats |-> Null,
     uploadedFiles |-> <<>>, selectedLeftFile |-> NoFile, selectedRightFile |-> NoFile,
     persistFiles |-> FALSE,
     apiLoading |-> FALSE]

\* A handler of the store is followed through its calls of set: a run is
\* the state the handler started in and, after it, the state after every
\* call of set, which is the state the listeners are called with.
Last(run) == run[Len(run)]
\* Object.assign(state, partial)
assign(st, partial) == [f \in DOMAIN st |-> IF f \in DOMAIN partial THEN partial[f] ELSE st[f]]
\* setState(partial): the state is assigned, then every listener is called
set(run, partial) == Append(run, assign(Last(run), partial))
\* a call of set on a property that is left out here (texts, statistics)
setOther(run) == Append(run, Last(run))

calculateDiffSets(run) ==
    LET st == Last(run) IN
    IF ~Truthy(st.inputJSON) \/ ~Truthy(st.outputJSON) THEN
        set(run, [diffResult |-> Null, diffStats |-> Null])
    ELSE
        LET diffResult == compare(st.inputJSON, st.outputJSON)
        IN  set(run, [diffResult |-> diffResult, diffStats |-> calculateStats(diffResult)])

setInputJSONSets(run, json) ==
    LET assigned == set(run, [inputJSON |-> json])
        counted == IF Truthy(json) THEN setOther(assigned) ELSE assigned
    IN  IF Truthy(Last(counted).outputJSON) THEN calculateDiffSets(counted) ELSE counted
setOutputJSONSets(run, json) ==
    LET assigned == set(run, [outputJSON |-> json])
    IN  IF Truthy(Last(assigned).inputJSON) THEN calculateDiffSets(assigned) ELSE assigned
setInputValidationSets(run, validation) == set(run, [inputValidation |-> validation])
setOutputValidationSets(run, validation) == set(run, [outputValidation |-> validation])
setAPIEndpointSets(run, endpoint) == set(run, [apiEndpoint |-> endpoint])
resetSets(run) ==
    set(run, [inputJSON |-> Null, inputValidation |-> Null, outputJSON |-> Null,
              outputValidation |-> Null, diffResult |-> Null, diffStats |-> Null])
clearInputSets(run) ==
    LET cleared == set(run, [inputJSON |-> Null, inputValidation |-> Null])
    IN  IF Truthy(Last(cleared).outputJSON) THEN set(cleared, [diffResult |-> Null, diffStats |-> Null])
        ELSE cleared
clearOutputSets(run) ==
    set(run, [outputJSON |-> Null, outputValidation |-> Null, diffResult |-> Null, diffStats |-> Null])

\* the file library of the store (src/js/store.js, File Library Actions)
getFileById(st, fileId) ==
    LET files == st.uploadedFiles
    IN  files[CHOOSE i \in DOMAIN files :
                 /\ files[i].id = fileId
                 /\ \A j \in DOMAIN files : files[j].id = fileId => i <= j]
HasFile(st, fileId) == \E i \in DOMAIN st.uploadedFiles : st.uploadedFiles[i].id = fileId

addFileSets(run, fileData) == set(run, [uploadedFiles |-> <<fileData>> \o Last(run).uploadedFiles])
removeFileSets(run, fileId) ==
    LET files == SelectSeq(Last(run).uploadedFiles, LAMBDA f : f.id # fileId)
        removed == set(run, [uploadedFiles |-> files])
        left == IF Last(removed).selectedLeftFile = fileId
                THEN set(removed, [selectedLeftFile |-> NoFile]) ELSE removed
    IN  IF Last(left).selectedRightFile = fileId
        THEN set(left, [selectedRightFile |-> NoFile]) ELSE left
renameFileSets(run, fileId, newName) ==
    LET old == Last(run).uploadedFiles
    IN  set(run, [uploadedFiles |->
                    [i \in DOMAIN old |-> IF old[i].id = fileId THEN [old[i] EXCEPT !.name = newName]
                                          ELSE old[i]]])
clearAllFilesSets(run) ==
    set(run, [uploadedFiles |-> <<>>, selectedLeftFile |-> NoFile, selectedRightFile |-> NoFile])
setSelectedFilesSets(run, leftId, rightId) ==
    LET selected == set(run, [selectedLeftFile |-> leftId, selectedRightFile |-> rightId])
        st == Last(selected)
    IN  IF leftId # NoFile /\ rightId # NoFile /\ HasFile(st, leftId) /\ HasFile(st, rightId) THEN
            LET leftFile == getFileById(st, leftId)
                rightFile == getFileById(st, rightId)
            IN  setOutputValidationSets(
                    setOutputJSONSets(
                        setInputValidationSets(setInputJSONSets(selected, leftFile.content),
                                               leftFile.validation),
                        rightFile.content),
                    rightFile.validation)
        ELSE selected
toggleFilePersistenceSets(run) == set(run, [persistFiles |-> ~Last(run).persistFiles])
importFileLibrarySets(run, filesData, merge) ==
    set(run, [uploadedFiles |-> IF merge THEN Last(run).uploadedFiles \o filesData ELSE filesData])

\* localStorage under 'madmp-file-library': nothing, or the files as JSON text
Missing == [present |-> FALSE, files |-> <<>>]
writtenFile(file) == [file EXCEPT !.content = stringify(@)]
readFile(entry) == [entry EXCEPT !.content = parseJSON(@)]
Stored(files) == [present |-> TRUE, files |-> [i \in DOMAIN files |-> writtenFile(files[i])]]
\* Utils.storage.get('madmp-file-library', [])
readLibrary(lib) == IF lib.present THEN [i \in DOMAIN lib.files |-> readFile(lib.files[i])] ELSE <<>>
\* if (get().persistFiles) Utils.storage.set('madmp-file-library', files)
\* (persistedAlways writes whether or not persistence is enabled)
persistedAlways(st, lib, files) == Stored(files)
persisted(st, lib, files) == IF st.persistFiles THEN Stored(files) ELSE lib
\* what toggleFilePersistence leaves in localStorage, st being the state it
\* ends in (toggledKeeping leaves the library there when disabling)
toggledKeeping(st, lib) ==
    IF st.persistFiles /\ Len(st.uploadedFiles) > 0 THEN Stored(st.uploadedFiles) ELSE lib
toggled(st, lib) ==
    IF st.persistFiles /\ Len(st.uploadedFiles) > 0 THEN Stored(st.uploadedFiles)
    ELSE IF ~st.persistFiles THEN Missing
    ELSE lib

\* the state a handler of the store ends in
calculateDiff(st) == Last(calculateDiffSets(<<st>>))
setInputJSON(st, json) == Last(setInputJSONSets(<<st>>, json))
setOutputJSON(st, json) == Last(setOutputJSONSets(<<st>>, json))
setInputValidation(st, validation) == Last(setInputValidationSets(<<st>>, validation))
setOutputValidation(st, validation) == Last(setOutputValidationSets(<<st>>, validation))
setAPIEndpoint(st, endpoint) == Last(setAPIEndpointSets(<<st>>, endpoint))
clearInput(st) == Last(clearInputSets(<<st>>))

(***************************************************************************)
(* SessionManager (src/unnamed/part_002).  The sessions are kept in        *)
(* localStorage as JSON text: a stored session holds its two documents as  *)
(* text, and reading the list parses them.  localStorage is taken to       *)
(* accept every write.                                                     *)
(***************************************************************************)
maxSessions == 20

\* a session as Utils.storage.set writes it and as Utils.storage.get reads it
written(session) ==
    [session EXCEPT !.inputJSON = stringify(@), !.outputJSON = stringify(@)]
read(entry) ==
    [entry EXCEPT !.inputJSON = parseJSON(@), !.outputJSON = parseJSON(@)]
\* getSessions()
getSessions(stored) == [i \in DOMAIN stored |-> read(stored[i])]

\* Utils.generateId(): an id that was not given before, here the k-th one
generateId(k) == "id-" \o ToString(k)
\* the session saveSession builds from the store, with the k-th generated id
newSession(st, k) ==
    [id |-> generateId(k),
     name |-> "Session " \o ToString(k),
     timestamp |-> k,
     inputJSON |-> st.inputJSON,
     outputJSON |-> st.outputJSON,
     inputValidation |-> st.inputValidation,
     outputValidation |-> st.outputValidation,
     diffResult |-> st.diffResult,
     diffStats |-> st.diffStats,
     apiEndpoint |-> st.apiEndpoint]

\* if (sessions.length > this.maxSessions) sessions.splice(this.maxSessions)
\* (keepAll drops nothing, keepLast drops from the front)
keepAll(list) == list
keepLast(list) ==
    IF Len(list) > maxSessions THEN SubSeq(list, Len(list) - maxSessions + 1, Len(list)) ELSE list
keepMax(list) ==
    IF Len(list) > maxSessions THEN SubSeq(list, 1, maxSessions) ELSE list
\* sessions.unshift(session), the splice, and Utils.storage.set
unshiftSession(stored, session) ==
    LET list == keepMax(<<session>> \o getSessions(stored))
    IN  [i \in DOMAIN list |-> written(list[i])]

\* sessions.find(s => s.id === sessionId)
HasSession(list, sessionId) == \E i \in DOMAIN list : list[i].id = sessionId
findSession(list, sessionId) ==
    list[CHOOSE i \in DOMAIN list :
            /\ list[i].id = sessionId
            /\ \A j \in DOMAIN list : list[j].id = sessionId => i <= j]
\* sessions.filter(s => s.id !== sessionId)
withoutSession(stored, sessionId) ==
    LET list == SelectSeq(getSessions(stored), LAMBDA x : x.id # sessionId)
    IN  [i \in DOMAIN list |-> written(list[i])]

\* the store where loadSession ends, having set the documents, the
\* validations and the endpoint of the session
restoredSets(run, session) ==
    LET documents == setOutputJSONSets(setInputJSONSets(run, session.inputJSON), session.outputJSON)
        validations == setOutputValidationSets(
                           setInputValidationSets(documents, session.inputValidation),
                           session.outputValidation)
    IN  IF session.apiEndpoint # "" THEN setAPIEndpointSets(validations, session.apiEndpoint)
        ELSE validations
restored(st, session) == Last(restoredSets(<<st>>, session))

(***************************************************************************)
(* DiffNavigation (src/unnamed/part_003): the changes of a diff, sorted by *)
(* path, and the index of the change that is shown.                        *)
(***************************************************************************)
DiffNavigation == [changes |-> <<>>, currentIndex |-> -1]

\* the place of a character in the order localeCompare sorts by:
\* punctuation, then digits, then letters
CharRank(c) ==
    CASE c = "." -> 1 [] c = "[" -> 2 [] c = "]" -> 3
      [] c = "0" -> 10 [] c = "1" -> 11 [] c = "2" -> 12 [] c = "3" -> 13 [] c = "4" -> 14
      [] c = "5" -> 15 [] c = "6" -> 16 [] c = "7" -> 17 [] c = "8" -> 18 [] c = "9" -> 19
      [] c = "a" -> 20 [] c = "b" -> 21
\* a.localeCompare(b) <= 0
RECURSIVE localeCompareAtMost(_, _)
localeCompareAtMost(a, b) ==
    IF a = "" THEN TRUE
    ELSE IF b = "" THEN FALSE
    ELSE IF SubSeq(a, 1, 1) = SubSeq(b, 1, 1)
         THEN localeCompareAtMost(SubSeq(a, 2, Len(a)), SubSeq(b, 2, Len(b)))
    ELSE CharRank(SubSeq(a, 1, 1)) < CharRank(SubSeq(b, 1, 1))
\* changes.sort((a, b) => a.path.localeCompare(b.path)): equal paths keep
\* their order
RECURSIVE sortByPath(_)
sortByPath(changes) ==
    IF changes = <<>> THEN <<>>
    ELSE LET sorted == sortByPath(SubSeq(changes, 1, Len(changes) - 1))
             x == changes[Len(changes)]
             before == SelectSeq(sorted, LAMBDA y : localeCompareAtMost(y.path, x.path))
             after == SelectSeq(sorted, LAMBDA y : ~localeCompareAtMost(y.path, x.path))
         IN  before \o <<x>> \o after

\* the added, removed and modified records of a diff, each with its type
typed(list, type) == [i \in DOMAIN list |-> [type |-> type, path |-> list[i].path, data |-> list[i]]]

navigateToChange(nv, index) ==
    IF index < 0 \/ index >= Len(nv.changes) THEN nv
    ELSE [nv EXCEPT !.currentIndex = index]
buildChangesList(nv, diffResult) ==
    IF diffResult = Null THEN [changes |-> <<>>, currentIndex |-> -1]
    ELSE LET changes == sortByPath(typed(diffResult.added, "added")
                                   \o typed(diffResult.removed, "removed")
                                   \o typed(diffResult.modified, "modified"))
         IN  IF Len(changes) > 0
             THEN navigateToChange([changes |-> changes, currentIndex |-> 0], 0)
             ELSE [changes |-> changes, currentIndex |-> -1]
next(nv) ==
    IF Len(nv.changes) = 0 THEN nv
    ELSE navigateToChange(nv, (nv.currentIndex + 1) % Len(nv.changes))
\* (previousStopping stays at the first change)
previousStopping(nv) ==
    IF Len(nv.changes) = 0 THEN nv
    ELSE navigateToChange(nv, IF nv.currentIndex - 1 < 0 THEN 0 ELSE nv.currentIndex - 1)
previous(nv) ==
    IF Len(nv.changes) = 0 THEN nv
    ELSE navigateToChange(nv, IF nv.currentIndex - 1 < 0 THEN Len(nv.changes) - 1
                              ELSE nv.currentIndex - 1)
\* the first index from i up to last (counted from 0) of a change of the
\* type, or -1
RECURSIVE firstOfType(_, _, _, _)
firstOfType(changes, type, i, last) ==
    IF i > last THEN -1
    ELSE IF changes[i + 1].type = type THEN i
    ELSE firstOfType(changes, type, i + 1, last)
jumpToType(nv, type) ==
    IF SelectSeq(nv.changes, LAMBDA c : c.type = type) = <<>> THEN nv
    ELSE LET after == firstOfType(nv.changes, type, nv.currentIndex + 1, Len(nv.changes) - 1)
             targetIndex == IF after = -1 THEN firstOfType(nv.changes, type, 0, nv.currentIndex)
                            ELSE after
         IN  IF targetIndex >= 0 THEN navigateToChange(nv, targetIndex) ELSE nv

\* the arrays whose changes are navigated and searched: of null, 1 and "1"
ItemLists == UNION {[1..n -> Leaves] : n \in 0..MaxItems}
\* the diffs navigated: none, and the diffs of two such arrays
NavigatedDiffs == {Null} \cup {compare(Arr(o), Arr(n)) : o, n \in ItemLists}

(***************************************************************************)
(* DiffSearch (src/js/diff-search.js): the query, the changes of the diff  *)
(* that match it, and the index of the match that is shown.                *)
(***************************************************************************)
DiffSearch == [currentQuery |-> "", matchedResults |-> <<>>, currentMatchIndex |-> -1]

\* query.toLowerCase().trim(), for a text of digits, brackets, blanks and
\* the letters a, b, z in either case
toLowerCase(str) ==
    [i \in DOMAIN str |->
        CASE str[i] = "A" -> "a" [] str[i] = "B" -> "b" [] str[i] = "Z" -> "z" [] OTHER -> str[i]]
RECURSIVE trim(_)
trim(str) ==
    IF str = <<>> THEN str
    ELSE IF Head(str) = " " THEN trim(Tail(str))
    ELSE IF str[Len(str)] = " " THEN trim(SubSeq(str, 1, Len(str) - 1))
    ELSE str
\* a text as the sequence of its characters, and back
Chars(s) == [i \in 1..Len(s) |-> SubSeq(s, i, i)]
Text(chars) == join(chars, "")
\* str.includes(query)
includes(str, query) ==
    \E i \in 0..(Len(str) - Len(query)) : SubSeq(str, i + 1, i + Len(query)) = query

\* searchIn(value) of valueContainsQuery: null has no text, a string is its
\* own text, an object or array its JSON text, a number its decimal text
searchIn(value, query) ==
    IF value = Null THEN FALSE
    ELSE IF value.kind = "primitive"
         THEN includes(Text(toLowerCase(Chars(value.val))), query)
    ELSE includes(Text(toLowerCase(Chars(stringify(value)))), query)
valueContainsQuery(change, query) ==
    IF query = "" THEN FALSE
    ELSE IF "value" \in DOMAIN change THEN searchIn(change.value, query)
    ELSE searchIn(change.oldValue, query) \/ searchIn(change.newValue, query)
\* the condition of performSearch under which a change is a match
matchesQuery(change, query) ==
    includes(Text(toLowerCase(Chars(change.path))), query) \/ valueContainsQuery(change, query)

\* [...added.map(c => ({...c, type: 'added'})), ...removed.map(..), ...modified.map(..)]
retyped(list, type) ==
    [i \in DOMAIN list |->
        [f \in DOMAIN list[i] \cup {"type"} |-> IF f = "type" THEN type ELSE list[i][f]]]
allChanges(diffResult) ==
    retyped(diffResult.added, "added") \o retyped(diffResult.removed, "removed")
        \o retyped(diffResult.modified, "modified")

scrollToMatch(sr, index) ==
    IF index < 0 \/ index >= Len(sr.matchedResults) THEN sr
    ELSE [sr EXCEPT !.currentMatchIndex = index]
performSearch(sr, st, query) ==
    LET currentQuery == Text(trim(toLowerCase(Chars(query))))
        asked == [sr EXCEPT !.currentQuery = currentQuery]
    IN  IF currentQuery = "" THEN asked
        ELSE IF st.diffResult = Null THEN asked
        ELSE LET matched == [asked EXCEPT !.matchedResults =
                                SelectSeq(allChanges(st.diffResult),
                                          LAMBDA change : matchesQuery(change, currentQuery))]
             IN  IF Len(matched.matchedResults) > 0
                 THEN scrollToMatch([matched EXCEPT !.currentMatchIndex = 0], 0)
                 ELSE matched
nextMatch(sr) ==
    IF Len(sr.matchedResults) = 0 THEN sr
    ELSE scrollToMatch(sr, (sr.currentMatchIndex + 1) % Len(sr.matchedResults))
previousMatch(sr) ==
    IF Len(sr.matchedResults) = 0 THEN sr
    ELSE scrollToMatch(sr, IF sr.currentMatchIndex - 1 < 0 THEN Len(sr.matchedResults) - 1
                           ELSE sr.currentMatchIndex - 1)
clearSearch(sr) == [currentQuery |-> "", matchedResults |-> <<>>, currentMatchIndex |-> -1]

(***************************************************************************)
(* API (src/js/api.js): the requests sent and their responses.             *)
(***************************************************************************)
setAPILoadingSets(run, loading) == set(run, [apiLoading |-> loading])
\* Utils.isValidURL(url): new URL(url) accepts it, for the endpoints entered
isValidURL(url) == includes(url, "://")
\* handleResponse(response), for a response that is a success
handleResponseSets(run, data, validation) ==
    calculateDiffSets(setOutputValidationSets(setOutputJSONSets(setOther(run), data), validation))
\* handleError(error)
handleErrorSets(run) == setOther(run)

(***************************************************************************)
(* The state: the log of the compare calls made so far, each with its      *)
(* arguments and the result it returned; the last statistics or            *)
(* descriptors computed from a logged result; the store; the sessions in   *)
(* localStorage; the handler that ran last and how it ended; and how many  *)
(* saves, changes of the store and other session operations are left;      *)
(* the file library in localStorage; the states the listeners of the store *)
(* were called with by the last handler; the state of DiffNavigation; the  *)
(* API requests awaiting their response; and the state of DiffSearch.      *)
(***************************************************************************)
VARIABLES calls, report, store, sessions, outcome, budget, library, notified, nav, pending, search
vars == <<calls, report, store, sessions, outcome, budget, library, notified, nav, pending, search>>

NoReport == [kind |-> "none"]
NoOutcome == [op |-> "none"]
\* the operations left, and the number of ids Utils.generateId has given
Budget(saves, edits, others) == [saves |-> saves, edits |-> edits, others |-> others, ids |-> 0]

\* a document with every null-valued object key left out (arrays keep nulls)
RECURSIVE omitNullKeys(_)
omitNullKeys(v) ==
    IF v.kind = "object" THEN
        LET kept == SelectSeq(v.entries, LAMBDA e : e.val # Null)
        IN  Obj([i \in 1..Len(kept) |-> [key |-> kept[i].key, val |-> omitNullKeys(kept[i].val)]])
    ELSE IF v.kind = "array" THEN
        Arr([i \in 1..Len(v.items) |-> omitNullKeys(v.items[i])])
    ELSE v

\* the application as it starts, with empty localStorage
Started ==
    /\ calls = <<>>
    /\ report = NoReport
    /\ store = InitialStore
    /\ sessions = <<>>
    /\ outcome = NoOutcome
    /\ library = Missing
    /\ notified = <<>>
    /\ nav = DiffNavigation
    /\ pending = {}
    /\ search = DiffSearch

Init ==
    /\ Started
    /\ budget = Budget(0, 0, 0)

\* one call DiffEngine.compare(o, n) (CallAccumulating goes on with the
\* changes of the call before instead of new, empty lists)
CallAccumulating(o, n) ==
    /\ Len(calls) < MaxCalls
    /\ calls' = Append(calls, [oldObj |-> o, newObj |-> n,
                               changes |-> deepCompare(o, n, "", IF calls = <<>> THEN EmptyChanges
                                                                 ELSE calls[Len(calls)].changes)])
    /\ UNCHANGED <<report, store, sessions, outcome, budget, library, notified, nav, pending, search>>
Call(o, n) ==
    /\ Len(calls) < MaxCalls
    /\ calls' = Append(calls, [oldObj |-> o, newObj |-> n, changes |-> compare(o, n)])
    /\ UNCHANGED <<report, store, sessions, outcome, budget, library, notified, nav, pending, search>>

\* the first call, on two documents
Compare ==
    /\ calls = <<>>
    /\ \E o \in Docs, n \in Docs : Call(o, n)
\* the first call, on a document and itself
CompareSame ==
    /\ calls = <<>>
    /\ \E x \in SameDocs : Call(x, x)
\* a later call on the documents of an earlier call, swapped
CompareSwapped ==
    \E i \in DOMAIN calls : Call(calls[i].newObj, calls[i].oldObj)
\* a later call on the documents of an earlier call, with the null-valued
\* keys of the old document, of the new one or of both left out
CompareOmitted ==
    \E i \in DOMAIN calls :
        \E o \in {calls[i].oldObj, omitNullKeys(calls[i].oldObj)},
           n \in {calls[i].newObj, omitNullKeys(calls[i].newObj)} :
            /\ <<o, n>> # <<calls[i].oldObj, calls[i].newObj>>
            /\ Call(o, n)

Next == Compare \/ CompareSame \/ CompareSwapped \/ CompareOmitted

Spec == Init /\ [][Next]_vars

\* the same calls on documents with unusual keys
CompareKeyed ==
    /\ calls = <<>>
    /\ \E o \in KeyedDocs, n \in KeyedDocs : Call(o, n)
CompareSameKeyed ==
    /\ calls = <<>>
    /\ \E x \in SameKeyedDocs : Call(x, x)

NextKeys == CompareKeyed \/ CompareSameKeyed \/ CompareSwapped

SpecKeys == Init /\ [][NextKeys]_vars

\* n copies of the value v
Repeat(v, n) == [i \in 1..n |-> v]
\* two arrays of leaves that differ as wished: u elements unchanged, then m
\* modified (1 becomes "1"), a added (null becomes 1), r removed (1 becomes null)
ListOld(u, m, a, r) ==
    Arr(Repeat(Prim("number", "1"), u) \o Repeat(Prim("number", "1"), m)
        \o Repeat(Null, a) \o Repeat(Prim("number", "1"), r))
ListNew(u, m, a, r) ==
    Arr(Repeat(Prim("number", "1"), u) \o Repeat(Prim("string", "1"), m)
        \o Repeat(Prim("number", "1"), a) \o Repeat(Null, r))
\* the first call, on two long arrays
CompareLists ==
    /\ calls = <<>>
    /\ \E u \in 0..MaxUnchanged, m \in 0..MaxModified, a \in 0..MaxAdded, r \in 0..MaxRemoved :
          Call(ListOld(u, m, a, r), ListNew(u, m, a, r))
\* DiffEngine.calculateStats on a logged result
CalculateStats ==
    /\ \E i \in DOMAIN calls :
          report' = [kind |-> "stats", of |-> i, stats |-> calculateStats(calls[i].changes)]
    /\ UNCHANGED <<calls, store, sessions, outcome, budget, library, notified, nav, pending, search>>
\* DiffEngine.generateJSONataQueries on a logged result
GenerateQueries ==
    /\ \E i \in DOMAIN calls :
          report' = [kind |-> "queries", of |-> i, queries |-> generateJSONataQueries(calls[i].changes)]
    /\ UNCHANGED <<calls, store, sessions, outcome, budget, library, notified, nav, pending, search>>

NextReport == Compare \/ CompareLists \/ CalculateStats \/ GenerateQueries

SpecReport == Init /\ [][NextReport]_vars

(***************************************************************************)
(* The handlers of the store and of SessionManager.                        *)
(***************************************************************************)
\* a handler of the store has made the calls of set of `run`
Edit(run) ==
    /\ budget' = [budget EXCEPT !.edits = @ - 1]
    /\ store' = Last(run)
    /\ notified' = Tail(run)
    /\ outcome' = [op |-> "store"]
    /\ UNCHANGED <<calls, report, sessions, library, nav, pending, search>>
SetInputJSON ==
    /\ budget.edits > 0
    /\ \E json \in StoreDocs : Edit(setInputJSONSets(<<store>>, json))
SetOutputJSON ==
    /\ budget.edits > 0
    /\ \E json \in StoreDocs : Edit(setOutputJSONSets(<<store>>, json))
SetInputValidation ==
    /\ budget.edits > 0
    /\ \E validation \in Validations : Edit(setInputValidationSets(<<store>>, validation))
SetOutputValidation ==
    /\ budget.edits > 0
    /\ \E validation \in Validations : Edit(setOutputValidationSets(<<store>>, validation))
SetAPIEndpoint ==
    /\ budget.edits > 0
    /\ \E endpoint \in Endpoints : Edit(setAPIEndpointSets(<<store>>, endpoint))
ClearInput ==
    /\ budget.edits > 0
    /\ Edit(clearInputSets(<<store>>))

\* SessionManager.saveSession()
SaveSession ==
    /\ budget.saves > 0
    /\ IF ~Truthy(store.inputJSON) THEN
           /\ budget' = [budget EXCEPT !.saves = @ - 1]
           /\ outcome' = [op |-> "saveSession", id |-> "", result |-> "no input"]
           /\ UNCHANGED sessions
       ELSE
           LET session == newSession(store, budget.ids + 1) IN
           /\ sessions' = unshiftSession(sessions, session)
           /\ budget' = [budget EXCEPT !.saves = @ - 1, !.ids = @ + 1]
           /\ outcome' = [op |-> "saveSession", id |-> session.id, result |-> "saved"]
    /\ notified' = <<>>
    /\ UNCHANGED <<calls, report, store, library, nav, pending, search>>

\* the ids a session is asked for by: of the first and of the last stored
\* session, and one that no session has
TriedIds ==
    {"id-none"} \cup (IF sessions = <<>> THEN {} ELSE {sessions[1].id, sessions[Len(sessions)].id})

\* SessionManager.loadSession(sessionId).  store is the state object of
\* the store, which has no method `set`: with a diff in the session the
\* call store.set(..) raises a TypeError and the handler ends there.
LoadSession ==
    /\ budget.others > 0
    /\ budget' = [budget EXCEPT !.others = @ - 1]
    /\ \E sessionId \in TriedIds :
          IF ~HasSession(getSessions(sessions), sessionId) THEN
              /\ outcome' = [op |-> "loadSession", id |-> sessionId, result |-> "not found"]
              /\ notified' = <<>>
              /\ UNCHANGED store
          ELSE
              LET session == findSession(getSessions(sessions), sessionId) IN
              /\ store' = restored(store, session)
              /\ notified' = Tail(restoredSets(<<store>>, session))
              /\ outcome' = [op |-> "loadSession", id |-> sessionId,
                             result |-> IF session.diffResult # Null THEN "TypeError" ELSE "loaded"]
    /\ UNCHANGED <<calls, report, sessions, library, nav, pending, search>>

\* SessionManager.deleteSession(sessionId)
DeleteSession ==
    /\ budget.others > 0
    /\ budget' = [budget EXCEPT !.others = @ - 1]
    /\ \E sessionId \in TriedIds :
          /\ sessions' = withoutSession(sessions, sessionId)
          /\ outcome' = [op |-> "deleteSession", id |-> sessionId, result |-> "deleted"]
    /\ notified' = <<>>
    /\ UNCHANGED <<calls, report, store, library, nav, pending, search>>

\* the parsed files that are imported: the first or the last session of the
\* list, exported; a session of another browser; a file without input
\* document; a file without id
ImportedFiles ==
    {read(sessions[i]) : i \in DOMAIN sessions \cap {1, Len(sessions)}}
    \cup {[newSession(setInputJSON(InitialStore, json), 0) EXCEPT !.id = "id-other"] : json \in StoreDocs}
    \cup {[newSession(InitialStore, 0) EXCEPT !.id = "id-other"]}
    \cup {[newSession(setInputJSON(InitialStore, json), 0) EXCEPT !.id = ""] : json \in StoreDocs}

\* SessionManager.importSession(file), from the file's text being read on
ImportSession ==
    /\ budget.others > 0
    /\ budget' = [budget EXCEPT !.others = @ - 1]
    /\ \E session \in ImportedFiles :
          IF session.id = "" \/ ~Truthy(session.inputJSON) THEN
              /\ outcome' = [op |-> "importSession", id |-> session.id, result |-> "invalid"]
              /\ UNCHANGED sessions
          ELSE
              /\ sessions' = unshiftSession(sessions, session)
              /\ outcome' = [op |-> "importSession", id |-> session.id, result |-> "imported"]
    /\ notified' = <<>>
    /\ UNCHANGED <<calls, report, store, library, nav, pending, search>>

NextSessions ==
    \/ SetInputJSON \/ SetOutputJSON \/ SetInputValidation \/ SetOutputValidation
    \/ SetAPIEndpoint \/ ClearInput
    \/ SaveSession \/ LoadSession \/ DeleteSession \/ ImportSession

InitSessions ==
    /\ Started
    /\ budget = Budget(MaxSaves, MaxEdits, MaxOthers)
SpecSessions == InitSessions /\ [][NextSessions]_vars

InitSessionCap ==
    /\ Started
    /\ budget = Budget(CapSaves, CapEdits, CapOthers)
SpecSessionCap == InitSessionCap /\ [][NextSessions]_vars

(***************************************************************************)
(* Loading documents (src/js/main.js) and the file library                 *)
(* (src/unnamed/part_000, FileLibrary, and the store's file actions).      *)
(***************************************************************************)
\* the texts a user loads: of the documents, and one that is not JSON
InputTexts == {stringify(d) : d \in InputDocs} \cup {"{"}
FileTexts == {stringify(d) : d \in StoreDocs} \cup {"{"}

\* App.processInputJSON(jsonString)
ProcessInputJSON ==
    /\ budget.edits > 0
    /\ \E jsonString \in InputTexts, validation \in InputValidations :
          IF ~IsJSON(jsonString) THEN
              /\ budget' = [budget EXCEPT !.edits = @ - 1]
              /\ outcome' = [op |-> "processInputJSON", result |-> "Invalid JSON"]
              /\ notified' = <<>>
              /\ UNCHANGED <<calls, report, store, sessions, library, nav, pending, search>>
          ELSE
              Edit(setInputValidationSets(setInputJSONSets(<<store>>, parseJSON(jsonString)),
                                          validation))
ClearOutput ==
    /\ budget.edits > 0
    /\ Edit(clearOutputSets(<<store>>))
Reset ==
    /\ budget.edits > 0
    /\ Edit(resetSets(<<store>>))

\* filename.replace(/\.json$/i, ''), for a name in lower case
displayName(filename) ==
    IF Len(filename) >= 5 /\ SubSeq(filename, Len(filename) - 4, Len(filename)) = ".json"
    THEN SubSeq(filename, 1, Len(filename) - 5)
    ELSE filename
\* createFileObject(content, filename), for content that is JSON, with the
\* k-th generated id and the result of the validation
createFileObject(content, filename, k, validation) ==
    [id |-> ToString(k) \o "_id",
     name |-> displayName(filename),
     content |-> parseJSON(content),
     validation |-> validation]

\* a handler of the file library has made the calls of set of `run` and
\* left `lib` in localStorage
Filed(op, run, lib) ==
    /\ store' = Last(run)
    /\ notified' = Tail(run)
    /\ library' = lib
    /\ outcome' = op
    /\ UNCHANGED <<calls, report, sessions, nav, pending, search>>

\* FileLibrary.addFile(content, filename)
AddFile ==
    /\ budget.others > 0
    /\ \E content \in FileTexts, validation \in Validations :
          IF ~IsJSON(content) THEN
              /\ budget' = [budget EXCEPT !.others = @ - 1]
              /\ Filed([op |-> "addFile", result |-> "Invalid JSON"], <<store>>, library)
          ELSE
              LET fileObj == createFileObject(content, "a.json", budget.ids + 1, validation)
                  run == addFileSets(<<store>>, fileObj)
              IN  /\ budget' = [budget EXCEPT !.others = @ - 1, !.ids = @ + 1]
                  /\ Filed([op |-> "addFile", result |-> fileObj.id], run,
                           persisted(Last(run), library, Last(run).uploadedFiles))

\* the ids a file is asked for by: of the files of the library, and one
\* that no file has
LibraryIds == {store.uploadedFiles[i].id : i \in DOMAIN store.uploadedFiles}
TriedFileIds == LibraryIds \cup {"none_id"}

\* removeFile(fileId)
RemoveFile ==
    /\ budget.others > 0
    /\ budget' = [budget EXCEPT !.others = @ - 1]
    /\ \E fileId \in TriedFileIds :
          LET run == removeFileSets(<<store>>, fileId)
          IN  Filed([op |-> "removeFile", result |-> fileId], run,
                    persisted(Last(run), library, Last(run).uploadedFiles))

\* renameFile(fileId, newName)
RenameFile ==
    /\ budget.others > 0
    /\ budget' = [budget EXCEPT !.others = @ - 1]
    /\ \E fileId \in TriedFileIds :
          LET run == renameFileSets(<<store>>, fileId, "b")
          IN  Filed([op |-> "renameFile", result |-> fileId], run,
                    persisted(Last(run), library, Last(run).uploadedFiles))

\* clearAllFiles()
ClearAllFiles ==
    /\ budget.others > 0
    /\ budget' = [budget EXCEPT !.others = @ - 1]
    /\ Filed([op |-> "clearAllFiles", result |-> ""], clearAllFilesSets(<<store>>), Missing)

\* toggleFilePersistence()
ToggleFilePersistence ==
    /\ budget.others > 0
    /\ budget' = [budget EXCEPT !.others = @ - 1]
    /\ LET run == toggleFilePersistenceSets(<<store>>)
       IN  Filed([op |-> "toggleFilePersistence", result |-> ""], run, toggled(Last(run), library))

\* the libraries that are imported: the library itself, exported and parsed;
\* one file of another browser; none
OtherFile == [createFileObject("{\"a\":1}", "c.json", 0, [valid |-> TRUE]) EXCEPT !.id = "other_id"]
ImportedLibraries == {readLibrary(Stored(store.uploadedFiles)), <<OtherFile>>, <<>>}

\* importFileLibrary(filesData, merge)
ImportFileLibrary ==
    /\ budget.others > 0
    /\ budget' = [budget EXCEPT !.others = @ - 1]
    /\ \E filesData \in ImportedLibraries, merge \in BOOLEAN :
          LET run == importFileLibrarySets(<<store>>, filesData, merge)
          IN  Filed([op |-> "importFileLibrary", result |-> ""], run,
                    persisted(Last(run), library, Last(run).uploadedFiles))

\* FileLibrary.selectFile(fileId, side), on a file shown in the library.
\* With both sides selected the handler reads the two files (a file that
\* is not in the library is null, and reading its content raises a
\* TypeError), sets the documents, and calls DiffEngine.computeDiff, which
\* DiffEngine does not have: that call raises a TypeError.
SelectFile ==
    /\ budget.others > 0
    /\ budget' = [budget EXCEPT !.others = @ - 1]
    /\ \E fileId \in LibraryIds, side \in {"left", "right"} :
          LET selected == IF side = "left"
                          THEN setSelectedFilesSets(<<store>>, fileId, store.selectedRightFile)
                          ELSE setSelectedFilesSets(<<store>>, store.selectedLeftFile, fileId)
              st == Last(selected)
              both == st.selectedLeftFile # NoFile /\ st.selectedRightFile # NoFile
              run == IF ~both \/ ~HasFile(st, st.selectedLeftFile) THEN selected
                     ELSE IF ~HasFile(st, st.selectedRightFile)
                          THEN setInputJSONSets(selected, getFileById(st, st.selectedLeftFile).content)
                     ELSE setOutputJSONSets(
                              setInputJSONSets(selected, getFileById(st, st.selectedLeftFile).content),
                              getFileById(st, st.selectedRightFile).content)
          IN  Filed([op |-> "selectFile", id |-> fileId, side |-> side,
                     result |-> IF both THEN "TypeError" ELSE "selected"], run, library)

NextLibrary ==
    \/ ProcessInputJSON \/ SetOutputJSON \/ ClearInput \/ ClearOutput \/ Reset
    \/ AddFile \/ RemoveFile \/ RenameFile \/ ClearAllFiles
    \/ ToggleFilePersistence \/ ImportFileLibrary \/ SelectFile

\* what localStorage holds as the application starts: no library, or the
\* library a run with persistence enabled has left
SavedFile == [createFileObject("{\"a\":\"1\"}", "d.json", 0, [valid |-> TRUE]) EXCEPT !.id = "saved_id"]
SavedLibraries == {Missing, Stored(<<SavedFile>>)}

\* FileLibrary.init(): loadPersistedFiles()
loadPersistedFiles(st, lib) ==
    IF st.persistFiles /\ Len(readLibrary(lib)) > 0
    THEN Last(importFileLibrarySets(<<st>>, readLibrary(lib), FALSE))
    ELSE st

InitLibrary ==
    /\ calls = <<>>
    /\ report = NoReport
    /\ sessions = <<>>
    /\ outcome = NoOutcome
    /\ notified = <<>>
    /\ nav = DiffNavigation
    /\ pending = {}
    /\ search = DiffSearch
    /\ budget = Budget(0, LibraryEdits, LibraryOps)
    /\ \E persistFiles \in BOOLEAN, lib \in SavedLibraries :
          /\ ~persistFiles => lib = Missing
          /\ library = lib
          /\ store = loadPersistedFiles([InitialStore EXCEPT !.persistFiles = persistFiles], lib)
SpecLibrary == InitLibrary /\ [][NextLibrary]_vars

(***************************************************************************)
(* The handlers of DiffNavigation, DiffSearch and API.                     *)
(***************************************************************************)
\* the handlers of DiffNavigation: each sets the navigator; `outcome` keeps
\* the handler and the index it started from
BuildChangesList ==
    /\ outcome' = [op |-> "buildChangesList", from |-> nav.currentIndex]
    /\ \E diffResult \in NavigatedDiffs : nav' = buildChangesList(nav, diffResult)
    /\ UNCHANGED <<calls, report, store, sessions, budget, library, notified, pending, search>>
NavigateNext ==
    /\ outcome' = [op |-> "next", from |-> nav.currentIndex]
    /\ nav' = next(nav)
    /\ UNCHANGED <<calls, report, store, sessions, budget, library, notified, pending, search>>
NavigatePrevious ==
    /\ outcome' = [op |-> "previous", from |-> nav.currentIndex]
    /\ nav' = previous(nav)
    /\ UNCHANGED <<calls, report, store, sessions, budget, library, notified, pending, search>>
JumpToType ==
    /\ outcome' = [op |-> "jumpToType", from |-> nav.currentIndex]
    /\ \E type \in {"added", "removed", "modified"} : nav' = jumpToType(nav, type)
    /\ UNCHANGED <<calls, report, store, sessions, budget, library, notified, pending, search>>

NextNavigation == BuildChangesList \/ NavigateNext \/ NavigatePrevious \/ JumpToType
InitNavigation ==
    /\ Started
    /\ budget = Budget(0, 0, 0)
SpecNavigation == InitNavigation /\ [][NextNavigation]_vars

\* the store as two arrays have been loaded into it
Loaded(o, n) == setOutputJSON(setInputJSON(InitialStore, Arr(o)), Arr(n))
\* the queries typed
Queries == {"", " 1 ", "[0", "NULL", "z"}

\* the handlers of DiffSearch: each sets the search; `outcome` keeps the
\* handler and the match index it started from
PerformSearch ==
    /\ outcome' = [op |-> "performSearch", from |-> search.currentMatchIndex]
    /\ \E query \in Queries : search' = performSearch(search, store, query)
    /\ UNCHANGED <<calls, report, store, sessions, budget, library, notified, nav, pending>>
NextMatch ==
    /\ outcome' = [op |-> "nextMatch", from |-> search.currentMatchIndex]
    /\ search' = nextMatch(search)
    /\ UNCHANGED <<calls, report, store, sessions, budget, library, notified, nav, pending>>
PreviousMatch ==
    /\ outcome' = [op |-> "previousMatch", from |-> search.currentMatchIndex]
    /\ search' = previousMatch(search)
    /\ UNCHANGED <<calls, report, store, sessions, budget, library, notified, nav, pending>>
ClearSearch ==
    /\ outcome' = [op |-> "clearSearch", from |-> search.currentMatchIndex]
    /\ search' = clearSearch(search)
    /\ UNCHANGED <<calls, report, store, sessions, budget, library, notified, nav, pending>>

NextSearch == PerformSearch \/ NextMatch \/ PreviousMatch \/ ClearSearch \/ ClearOutput
InitSearch ==
    /\ calls = <<>>
    /\ report = NoReport
    /\ sessions = <<>>
    /\ outcome = NoOutcome
    /\ library = Missing
    /\ notified = <<>>
    /\ nav = DiffNavigation
    /\ pending = {}
    /\ search = DiffSearch
    /\ budget = Budget(0, 1, 0)
    /\ \E o, n \in ItemLists : store = Loaded(o, n)
SpecSearch == InitSearch /\ [][NextSearch]_vars

\* the endpoint input changes (App.setupAPIControls): the text entered is
\* trimmed and set
EnteredEndpoints == {" https://api ", "api"}
ChangeEndpoint ==
    /\ budget.edits > 0
    /\ \E entered \in EnteredEndpoints :
          Edit(setAPIEndpointSets(<<store>>, Text(trim(Chars(entered)))))

\* API.send(), up to its await.  sendMaDMP raises its errors before it
\* fetches for an endpoint that is no URL: the request fails at once.
Send ==
    /\ budget.others > 0
    /\ IF \/ ~Truthy(store.inputJSON)
          \/ store.apiEndpoint = ""
          \/ store.inputValidation = Null
          \/ ~store.inputValidation.valid
       THEN
           /\ budget' = [budget EXCEPT !.others = @ - 1]
           /\ outcome' = [op |-> "send", result |-> "rejected"]
           /\ notified' = <<>>
           /\ UNCHANGED <<store, pending>>
       ELSE IF ~isValidURL(store.apiEndpoint) THEN
           LET run == setAPILoadingSets(handleErrorSets(setAPILoadingSets(<<store>>, TRUE)), FALSE)
           IN  /\ budget' = [budget EXCEPT !.others = @ - 1]
               /\ outcome' = [op |-> "send", result |-> "failed"]
               /\ store' = Last(run)
               /\ notified' = Tail(run)
               /\ UNCHANGED pending
       ELSE
           LET run == setAPILoadingSets(<<store>>, TRUE)
           IN  /\ budget' = [budget EXCEPT !.others = @ - 1, !.ids = @ + 1]
               /\ outcome' = [op |-> "send", result |-> "sent"]
               /\ store' = Last(run)
               /\ notified' = Tail(run)
               /\ pending' = pending \cup {budget.ids + 1}
    /\ UNCHANGED <<calls, report, sessions, library, nav, search>>

\* API.send() from its await on: the response of a request arrives, it is
\* handled, and the loading flag is cleared
Respond ==
    \E request \in pending :
        /\ pending' = pending \ {request}
        /\ \E ok \in BOOLEAN, data \in StoreDocs, validation \in Validations :
              LET handled == IF ok THEN handleResponseSets(<<store>>, data, validation)
                             ELSE handleErrorSets(<<store>>)
                  run == setAPILoadingSets(handled, FALSE)
              IN  /\ store' = Last(run)
                  /\ notified' = Tail(run)
                  /\ outcome' = [op |-> "respond", result |-> IF ok THEN "success" ELSE "error"]
        /\ UNCHANGED <<calls, report, sessions, budget, library, nav, search>>

NextApi == ProcessInputJSON \/ ChangeEndpoint \/ Send \/ Respond
InitApi ==
    /\ Started
    /\ budget = Budget(0, ApiEdits, ApiSends)
SpecApi == InitApi /\ [][NextApi]_vars

(***************************************************************************)
(* Locations and paths, for stating the properties.                        *)
(***************************************************************************)
KeySeg(k) == [isIndex |-> FALSE, key |-> k, index |-> 0]
IndexSeg(i) == [isIndex |-> TRUE, key |-> "", index |-> i]

\* the locations of a value: the sequences of keys and indices that lead
\* from its root to one of its nodes
RECURSIVE Locations(_)
Locations(v) ==
    {<<>>} \cup
    (IF v.kind = "object" THEN
        UNION {{<<KeySeg(v.entries[i].key)>> \o l : l \in Locations(v.entries[i].val)}
               : i \in 1..Len(v.entries)}
     ELSE IF v.kind = "array" THEN
        UNION {{<<IndexSeg(i - 1)>> \o l : l \in Locations(v.items[i])} : i \in 1..Len(v.items)}
     ELSE {})

RECURSIVE ValueAt(_, _)
ValueAt(v, loc) ==
    IF loc = <<>> THEN v
    ELSE IF Head(loc).isIndex THEN ValueAt(v.items[Head(loc).index + 1], Tail(loc))
    ELSE ValueAt(Get(v, Head(loc).key), Tail(loc))

\* the path the comparison gives to a location
RECURSIVE PathFrom(_, _)
PathFrom(path, loc) ==
    IF loc = <<>> THEN path
    ELSE PathFrom(IF Head(loc).isIndex THEN IndexPath(path, Head(loc).index)
                  ELSE KeyPath(path, Head(loc).key), Tail(loc))
PathOf(loc) == PathFrom("", loc)

IsLeaf(v) == v.kind \in {"null", "primitive"}
LeafLocations(v) == {l \in Locations(v) : IsLeaf(ValueAt(v, l))}
\* the locations that exist in both documents: the ones deepCompare reaches
CommonLocations(o, n) == Locations(o) \cap Locations(n)

StartsWith(s, prefix) == Len(s) >= Len(prefix) /\ SubSeq(s, 1, Len(prefix)) = prefix
\* p addresses a node strictly inside the subtree at the path anc
ProperDescendant(anc, p) ==
    IF anc = "" THEN p # ""
    ELSE /\ Len(p) > Len(anc)
         /\ StartsWith(p, anc)
         /\ SubSeq(p, Len(anc) + 1, Len(anc) + 1) \in {".", "["}
AtOrBelow(anc, p) == p = anc \/ ProperDescendant(anc, p)

Range(seq) == {seq[i] : i \in DOMAIN seq}
ListNames == {"added", "removed", "modified", "unchanged"}
\* every record of a result, with the list and the position it stands at
Entries(ch) ==
    UNION {{[list |-> name, pos |-> i, rec |-> ch[name][i]] : i \in DOMAIN ch[name]} : name \in ListNames}
\* the records of a result at the path p or below it
EntriesUnder(ch, p) == {e \in Entries(ch) : AtOrBelow(p, e.rec.path)}
\* the result restricted to the records at the path p or below it
Restrict(ch, p) == [name \in ListNames |-> SelectSeq(ch[name], LAMBDA r : AtOrBelow(p, r.path))]
PathValues(seq) == {[path |-> r.path, value |-> r.value] : r \in Range(seq)}

(***************************************************************************)
(* Properties of compare.                                                  *)
(***************************************************************************)

\* C1 (reflexivity): a call compare(X, X) returns no added, removed or
\* modified record, and its unchanged records are, one for one, the leaves
\* (primitive or null) of X, each with its path and its value.
Reflexivity ==
    \A i \in DOMAIN calls :
        LET c == calls[i] IN
        c.oldObj = c.newObj =>
            /\ c.changes.added = <<>>
            /\ c.changes.removed = <<>>
            /\ c.changes.modified = <<>>
            /\ Len(c.changes.unchanged) = Cardinality(LeafLocations(c.oldObj))
            /\ PathValues(c.changes.unchanged)
                 = {[path |-> PathOf(l), value |-> ValueAt(c.oldObj, l)] : l \in LeafLocations(c.oldObj)}
\* a document with a nested null leaf and a primitive leaf was compared with itself
ReflexivityWitness ==
    \E i \in DOMAIN calls :
        /\ calls[i].oldObj = calls[i].newObj
        /\ \E l1, l2 \in LeafLocations(calls[i].oldObj) :
              /\ Len(l1) >= 2
              /\ ValueAt(calls[i].oldObj, l1) = Null
              /\ ValueAt(calls[i].oldObj, l2).kind = "primitive"
        /\ Len(calls[i].changes.unchanged) >= 2

\* C2 (antisymmetry): the {path, value} pairs added by compare(X, Y) are the
\* ones removed by compare(Y, X) and vice versa, and the modified records of
\* the two calls are the same with oldValue and newValue swapped.
SwappedModified(seq) ==
    {[path |-> r.path, oldValue |-> r.newValue, newValue |-> r.oldValue] : r \in Range(seq)}
PlainModified(seq) ==
    {[path |-> r.path, oldValue |-> r.oldValue, newValue |-> r.newValue] : r \in Range(seq)}
Antisymmetry ==
    \A i, j \in DOMAIN calls :
        (calls[i].oldObj = calls[j].newObj /\ calls[i].newObj = calls[j].oldObj) =>
            /\ PathValues(calls[i].changes.added) = PathValues(calls[j].changes.removed)
            /\ PathValues(calls[i].changes.removed) = PathValues(calls[j].changes.added)
            /\ Len(calls[i].changes.added) = Len(calls[j].changes.removed)
            /\ Len(calls[i].changes.modified) = Len(calls[j].changes.modified)
            /\ PlainModified(calls[i].changes.modified) = SwappedModified(calls[j].changes.modified)
\* two different documents were compared in both orders, with something
\* added and something modified
AntisymmetryWitness ==
    \E i, j \in DOMAIN calls :
        /\ i # j
        /\ calls[i].oldObj # calls[i].newObj
        /\ calls[i].oldObj = calls[j].newObj /\ calls[i].newObj = calls[j].oldObj
        /\ calls[i].changes.added # <<>>
        /\ calls[i].changes.modified # <<>>

\* C3 (type-change short-circuit): where the two values at a path are not
\* null and of different kinds, the result holds exactly one record at that
\* path or below it: a modified record at the path with both values and
\* both kinds.
TypeChangeShortCircuit ==
    \A i \in DOMAIN calls :
        LET c == calls[i] IN
        \A l \in CommonLocations(c.oldObj, c.newObj) :
            LET ov == ValueAt(c.oldObj, l)
                nv == ValueAt(c.newObj, l)
            IN  (ov # Null /\ nv # Null /\ ov.kind # nv.kind) =>
                    /\ Cardinality(EntriesUnder(c.changes, PathOf(l))) = 1
                    /\ \A e \in EntriesUnder(c.changes, PathOf(l)) :
                          /\ e.list = "modified"
                          /\ e.rec = [path |-> PathOf(l), oldValue |-> ov, newValue |-> nv,
                                      oldType |-> ov.kind, newType |-> nv.kind]
\* an object with a member was compared with an array with an element, below the root
TypeChangeWitness ==
    \E i \in DOMAIN calls :
        \E l \in CommonLocations(calls[i].oldObj, calls[i].newObj) :
            /\ l # <<>>
            /\ ValueAt(calls[i].oldObj, l).kind = "object"
            /\ ValueAt(calls[i].newObj, l).kind = "array"
            /\ Locations(ValueAt(calls[i].oldObj, l)) # {<<>>}
            /\ Locations(ValueAt(calls[i].newObj, l)) # {<<>>}
            /\ Len(calls[i].changes.modified) = 1

KeySet(obj) == {obj.entries[i].key : i \in 1..Len(obj.entries)}

\* C4 (object key membership): where both values at a path are objects, a
\* key of the old object only gives exactly one record at path.key or below:
\* a removed record with the whole old value; a key of the new object only
\* gives exactly one added record with the whole new value; and for a key of
\* both, the records at path.key or below are the comparison of the two
\* values at path.key.
ObjectKeyMembership ==
    \A i \in DOMAIN calls :
        LET c == calls[i] IN
        \A l \in CommonLocations(c.oldObj, c.newObj) :
            LET ov == ValueAt(c.oldObj, l)
                nv == ValueAt(c.newObj, l)
            IN  (ov.kind = "object" /\ nv.kind = "object") =>
                    \A k \in KeySet(ov) \cup KeySet(nv) :
                        LET kp == KeyPath(PathOf(l), k) IN
                        IF k \notin KeySet(nv) THEN
                            /\ Restrict(c.changes, kp).removed
                                 = <<[path |-> kp, value |-> Get(ov, k), type |-> Get(ov, k).kind]>>
                            /\ Cardinality(EntriesUnder(c.changes, kp)) = 1
                        ELSE IF k \notin KeySet(ov) THEN
                            /\ Restrict(c.changes, kp).added
                                 = <<[path |-> kp, value |-> Get(nv, k), type |-> Get(nv, k).kind]>>
                            /\ Cardinality(EntriesUnder(c.changes, kp)) = 1
                        ELSE Restrict(c.changes, kp) = deepCompare(Get(ov, k), Get(nv, k), kp, EmptyChanges)
\* two objects were compared, the old one with a key of its own whose value
\* has a member, and then the same two swapped
ObjectKeyWitness ==
    \E i, j \in DOMAIN calls :
        LET ov == calls[i].oldObj
            nv == calls[i].newObj
        IN  /\ ov.kind = "object" /\ nv.kind = "object"
            /\ \E k \in KeySet(ov) \ KeySet(nv) : Locations(Get(ov, k)) # {<<>>}
            /\ calls[i].changes.removed # <<>>
            /\ calls[j].oldObj = nv /\ calls[j].newObj = ov
            /\ calls[j].changes.added # <<>>

\* C5 (positional array comparison): where both values at a path are arrays,
\* an index below both lengths is compared at path[i], an index of the old
\* array only gives exactly one removed record at path[i], and an index of
\* the new array only gives exactly one added record at path[i].
PositionalArrays ==
    \A i \in DOMAIN calls :
        LET c == calls[i] IN
        \A l \in CommonLocations(c.oldObj, c.newObj) :
            LET ov == ValueAt(c.oldObj, l)
                nv == ValueAt(c.newObj, l)
            IN  (ov.kind = "array" /\ nv.kind = "array") =>
                    \A x \in (0..(Len(ov.items) - 1)) \cup (0..(Len(nv.items) - 1)) :
                        LET xp == IndexPath(PathOf(l), x) IN
                        IF x >= Len(nv.items) THEN
                            /\ Restrict(c.changes, xp).removed
                                 = <<[path |-> xp, value |-> ov.items[x + 1], type |-> ov.items[x + 1].kind]>>
                            /\ Cardinality(EntriesUnder(c.changes, xp)) = 1
                        ELSE IF x >= Len(ov.items) THEN
                            /\ Restrict(c.changes, xp).added
                                 = <<[path |-> xp, value |-> nv.items[x + 1], type |-> nv.items[x + 1].kind]>>
                            /\ Cardinality(EntriesUnder(c.changes, xp)) = 1
                        ELSE Restrict(c.changes, xp)
                                 = deepCompare(ov.items[x + 1], nv.items[x + 1], xp, EmptyChanges)
\* an array was compared with a shorter, non-empty one: a common index and
\* an index of the old array only
PositionalArraysWitness ==
    \E i \in DOMAIN calls :
        LET c == calls[i] IN
        /\ c.oldObj.kind = "array" /\ c.newObj.kind = "array"
        /\ Len(c.oldObj.items) > Len(c.newObj.items)
        /\ Len(c.newObj.items) > 0
        /\ c.changes.removed # <<>>

\* C6 (null handling): where both values at a path are null, the result
\* holds exactly one record at that path or below: unchanged, with value
\* null; where exactly one is null, exactly one record: added with the new
\* value if the old one is null, removed with the old value otherwise; so
\* never a modified record and never a record below the path.
NullHandling ==
    \A i \in DOMAIN calls :
        LET c == calls[i] IN
        \A l \in CommonLocations(c.oldObj, c.newObj) :
            LET ov == ValueAt(c.oldObj, l)
                nv == ValueAt(c.newObj, l)
                under == EntriesUnder(c.changes, PathOf(l))
            IN  (ov = Null \/ nv = Null) =>
                    /\ Cardinality(under) = 1
                    /\ \A e \in under :
                          /\ e.rec.path = PathOf(l)
                          /\ e.list = (IF ov = Null /\ nv = Null THEN "unchanged"
                                       ELSE IF ov = Null THEN "added" ELSE "removed")
                          /\ e.rec.value = (IF ov = Null THEN nv ELSE ov)
\* below the root, null was compared with a value that has a member
NullHandlingWitness ==
    \E i \in DOMAIN calls :
        \E l \in CommonLocations(calls[i].oldObj, calls[i].newObj) :
            /\ l # <<>>
            /\ ValueAt(calls[i].oldObj, l) = Null
            /\ Locations(ValueAt(calls[i].newObj, l)) # {<<>>}
            /\ calls[i].changes.added # <<>>

\* C8 (primitive comparison): where both values at a path are primitives
\* (not null), the result holds exactly one record at that path: unchanged
\* with the value if the two are the same value of the same type, modified
\* with both values and the kind 'primitive' otherwise.
PrimitiveComparison ==
    \A i \in DOMAIN calls :
        LET c == calls[i] IN
        \A l \in CommonLocations(c.oldObj, c.newObj) :
            LET ov == ValueAt(c.oldObj, l)
                nv == ValueAt(c.newObj, l)
                under == EntriesUnder(c.changes, PathOf(l))
            IN  (ov.kind = "primitive" /\ nv.kind = "primitive") =>
                    /\ Cardinality(under) = 1
                    /\ \A e \in under :
                          IF ov = nv
                          THEN /\ e.list = "unchanged"
                               /\ e.rec = [path |-> PathOf(l), value |-> ov, type |-> "primitive"]
                          ELSE /\ e.list = "modified"
                               /\ e.rec = [path |-> PathOf(l), oldValue |-> ov, newValue |-> nv,
                                           type |-> "primitive"]
\* the number 1 was compared with the string "1"
PrimitiveComparisonWitness ==
    \E i \in DOMAIN calls :
        \E l \in CommonLocations(calls[i].oldObj, calls[i].newObj) :
            /\ ValueAt(calls[i].oldObj, l) = Prim("number", "1")
            /\ ValueAt(calls[i].newObj, l) = Prim("string", "1")
            /\ calls[i].changes.modified # <<>>

\* C9 (no overlapping records): no record of a result has a path that is a
\* proper descendant of the path of another record of the same result.
NoOverlappingRecords ==
    \A i \in DOMAIN calls :
        \A e1, e2 \in Entries(calls[i].changes) :
            ~ProperDescendant(e1.rec.path, e2.rec.path)
\* a result with two records, one of them a whole subtree with a member
\* (added, removed or modified by a change of kind)
NoOverlappingWitness ==
    \E i \in DOMAIN calls :
        LET subtree(v) == Locations(v) # {<<>>} IN
        /\ Cardinality(Entries(calls[i].changes)) >= 2
        /\ \E e \in Entries(calls[i].changes) :
              \/ e.list \in {"added", "removed"} /\ subtree(e.rec.value)
              \/ e.list = "modified" /\ (subtree(e.rec.oldValue) \/ subtree(e.rec.newValue))

\* the documents of call j are the documents of call i with the null-valued
\* keys of the old one, of the new one or of both left out
OmittedFrom(i, j) ==
    /\ calls[j].oldObj \in {calls[i].oldObj, omitNullKeys(calls[i].oldObj)}
    /\ calls[j].newObj \in {calls[i].newObj, omitNullKeys(calls[i].newObj)}
\* the locations of the null-valued object keys of a document
NullKeyLocations(v) ==
    {l \in Locations(v) : l # <<>> /\ ~l[Len(l)].isIndex /\ ValueAt(v, l) = Null}
\* the null-valued keys of call i that are absent in call j
OmittedOld(i, j) ==
    IF calls[j].oldObj = omitNullKeys(calls[i].oldObj) THEN NullKeyLocations(calls[i].oldObj) ELSE {}
OmittedNew(i, j) ==
    IF calls[j].newObj = omitNullKeys(calls[i].newObj) THEN NullKeyLocations(calls[i].newObj) ELSE {}
\* a record with the null-valued keys inside the values it carries left out
OmitInRecord(list, r) ==
    IF list = "modified"
    THEN [list |-> list, path |-> r.path, values |-> <<omitNullKeys(r.oldValue), omitNullKeys(r.newValue)>>]
    ELSE [list |-> list, path |-> r.path, values |-> <<omitNullKeys(r.value)>>]
\* the records of a result at exactly the path p
RecordsAt(ch, p) == {OmitInRecord(e.list, e.rec) : e \in {x \in Entries(ch) : x.rec.path = p}}

\* C7 as claimed (absence and explicit null are treated identically):
\* leaving out a null-valued object key in the old document, the new one or
\* both does not change the records at that key's path.
AbsenceSameAsNull ==
    \A i, j \in DOMAIN calls :
        OmittedFrom(i, j) =>
            \A l \in OmittedOld(i, j) \cup OmittedNew(i, j) :
                RecordsAt(calls[i].changes, PathOf(l)) = RecordsAt(calls[j].changes, PathOf(l))

\* C7 as amended: leaving out a null-valued object key does not change the
\* records at that key's path when the other document has a value other
\* than null there (an added or removed record with that value either way).
\* Against null, or against a missing key, it does: null against null is one
\* unchanged record, null against a missing key is one removed or added
\* record with value null, and two missing keys give no record.
HasValueAt(v, l) == l \in Locations(v) /\ ValueAt(v, l) # Null
Parent(l) == SubSeq(l, 1, Len(l) - 1)
\* the document has an object where the key at l would be, without that key
MissingKeyAt(v, l) ==
    /\ Parent(l) \in Locations(v)
    /\ ValueAt(v, Parent(l)).kind = "object"
    /\ l \notin Locations(v)
AbsenceSameAsNullAgainstValue ==
    \A i, j \in DOMAIN calls :
        OmittedFrom(i, j) =>
            /\ \A l \in OmittedOld(i, j) :
                  LET p == PathOf(l)
                      there == RecordsAt(calls[i].changes, p)
                      gone == RecordsAt(calls[j].changes, p)
                  IN  /\ HasValueAt(calls[j].newObj, l) =>
                            /\ there = gone
                            /\ there = {[list |-> "added", path |-> p,
                                         values |-> <<omitNullKeys(ValueAt(calls[j].newObj, l))>>]}
                      /\ (l \in Locations(calls[j].newObj) /\ ValueAt(calls[j].newObj, l) = Null) =>
                            /\ there = {[list |-> "unchanged", path |-> p, values |-> <<Null>>]}
                            /\ gone = {[list |-> "added", path |-> p, values |-> <<Null>>]}
                      /\ MissingKeyAt(calls[i].newObj, l) =>
                            /\ there = {[list |-> "removed", path |-> p, values |-> <<Null>>]}
                            /\ gone = {}
            /\ \A l \in OmittedNew(i, j) :
                  LET p == PathOf(l)
                      there == RecordsAt(calls[i].changes, p)
                      gone == RecordsAt(calls[j].changes, p)
                  IN  /\ HasValueAt(calls[j].oldObj, l) =>
                            /\ there = gone
                            /\ there = {[list |-> "removed", path |-> p,
                                         values |-> <<omitNullKeys(ValueAt(calls[j].oldObj, l))>>]}
                      /\ (l \in Locations(calls[j].oldObj) /\ ValueAt(calls[j].oldObj, l) = Null) =>
                            /\ there = {[list |-> "unchanged", path |-> p, values |-> <<Null>>]}
                            /\ gone = {[list |-> "removed", path |-> p, values |-> <<Null>>]}
                      /\ MissingKeyAt(calls[i].oldObj, l) =>
                            /\ there = {[list |-> "added", path |-> p, values |-> <<Null>>]}
                            /\ gone = {}
\* a key that is null in the old document and has a value in the new one was
\* left out of the old document
AbsenceWitness ==
    \E i, j \in DOMAIN calls :
        /\ i # j
        /\ OmittedFrom(i, j)
        /\ \E l \in OmittedOld(i, j) :
              /\ HasValueAt(calls[j].newObj, l)
              /\ l \notin Locations(calls[j].oldObj)
              /\ calls[j].changes.added # <<>>

\* the keys of the objects of a value
RECURSIVE KeysOf(_)
KeysOf(v) ==
    IF v.kind = "object" THEN
        KeySet(v) \cup UNION {KeysOf(v.entries[i].val) : i \in 1..Len(v.entries)}
    ELSE IF v.kind = "array" THEN UNION {KeysOf(v.items[i]) : i \in 1..Len(v.items)}
    ELSE {}
NoPathCharacter(k) == \A x \in 1..Len(k) : SubSeq(k, x, x) \notin {".", "[", "]"}
SharedPath(ch) == \E e1, e2 \in Entries(ch) : e1 # e2 /\ e1.rec.path = e2.rec.path
SamePathLocations(o, n) ==
    \E l1, l2 \in Locations(o) \cup Locations(n) : l1 # l2 /\ PathOf(l1) = PathOf(l2)

\* C10 as claimed (path uniqueness): when no key of the two documents
\* contains '.', '[' or ']', no two records of the result share a path.
PathUniqueness ==
    \A i \in DOMAIN calls :
        (\A k \in KeysOf(calls[i].oldObj) \cup KeysOf(calls[i].newObj) : NoPathCharacter(k))
            => ~SharedPath(calls[i].changes)

\* C10 as amended: when every key of the two documents is non-empty and
\* contains none of '.', '[' and ']', two different locations of the two
\* documents never get the same path, and no two records of the result
\* share a path.
PathUniquenessNonEmptyKeys ==
    \A i \in DOMAIN calls :
        (\A k \in KeysOf(calls[i].oldObj) \cup KeysOf(calls[i].newObj) : k # "" /\ NoPathCharacter(k))
            => /\ ~SharedPath(calls[i].changes)
               /\ ~SamePathLocations(calls[i].oldObj, calls[i].newObj)
\* a document with plain keys on two levels was compared, with two records
PathUniquenessWitness ==
    \E i \in DOMAIN calls :
        /\ KeysOf(calls[i].oldObj) \cup KeysOf(calls[i].newObj) = {"a", "b"}
        /\ \E l \in CommonLocations(calls[i].oldObj, calls[i].newObj) :
              /\ Len(l) >= 2
              /\ \E e \in Entries(calls[i].changes) : e.rec.path = PathOf(l)
        /\ Cardinality(Entries(calls[i].changes)) >= 2

(***************************************************************************)
(* Parsing a path (DiffNavigation.getPathParts, src/unnamed/part_003) and  *)
(* formatting its parts again as compareObjects formats keys.              *)
(***************************************************************************)
\* s.split(sep), for a separator of one character
RECURSIVE split(_, _)
split(s, sep) ==
    LET at == {j \in 1..Len(s) : SubSeq(s, j, j) = sep}
    IN  IF at = {} THEN <<s>>
        ELSE LET i == CHOOSE j \in at : \A k \in at : j <= k
             IN  <<SubSeq(s, 1, i - 1)>> \o split(SubSeq(s, i + 1, Len(s)), sep)

IsDigit(c) == c \in {"0", "1", "2", "3", "4", "5", "6", "7", "8", "9"}
\* the matches of /\[\d+\]/ in s, each as its first and its last position
IndexMatches(s) ==
    {m \in (1..Len(s)) \X (1..Len(s)) :
        /\ m[2] > m[1] + 1
        /\ SubSeq(s, m[1], m[1]) = "["
        /\ SubSeq(s, m[2], m[2]) = "]"
        /\ \A k \in (m[1] + 1)..(m[2] - 1) : IsDigit(SubSeq(s, k, k))}
\* part.replace(/\[\d+\]/, ''): the leftmost match is removed, no other
removeFirstIndex(part) ==
    IF IndexMatches(part) = {} THEN part
    ELSE LET m == CHOOSE x \in IndexMatches(part) : \A y \in IndexMatches(part) : x[1] <= y[1]
         IN  SubSeq(part, 1, m[1] - 1) \o SubSeq(part, m[2] + 1, Len(part))

getPathParts(path) ==
    LET parts == split(path, ".")
    IN  [i \in DOMAIN parts |-> removeFirstIndex(parts[i])]

\* the path compareObjects builds for the keys `parts`, from the path `path`
RECURSIVE formatFrom(_, _)
formatFrom(path, parts) ==
    IF parts = <<>> THEN path
    ELSE formatFrom(KeyPath(path, Head(parts)), Tail(parts))
formatParts(parts) == formatFrom("", parts)

\* C11 as claimed (path round-trip): every path of a record is the path of a
\* location of one of the two documents (keys joined by '.', indices
\* appended as '[n]', the root is ''), and parsing it into its parts and
\* formatting the parts again gives the same path.
PathRoundTrip ==
    \A i \in DOMAIN calls :
        \A e \in Entries(calls[i].changes) :
            /\ \E l \in Locations(calls[i].oldObj) \cup Locations(calls[i].newObj) :
                  PathOf(l) = e.rec.path
            /\ formatParts(getPathParts(e.rec.path)) = e.rec.path

(***************************************************************************)
(* The order in which the traversal visits the locations of two documents. *)
(***************************************************************************)
IndexIn(seq, x) == CHOOSE j \in DOMAIN seq : seq[j] = x
InSeq(seq, x) == \E j \in DOMAIN seq : seq[j] = x
\* the rank of the child `seg` among the children of the location p: an
\* array index is its own rank; a key of the old object ranks as in the old
\* object, a key of the new object only ranks after every old key, as in
\* the new object
SegRank(o, n, p, seg) ==
    IF seg.isIndex THEN seg.index
    ELSE LET oldKeys == IF p \in Locations(o) /\ ValueAt(o, p).kind = "object"
                        THEN ObjectKeys(ValueAt(o, p)) ELSE <<>>
             newKeys == IF p \in Locations(n) /\ ValueAt(n, p).kind = "object"
                        THEN ObjectKeys(ValueAt(n, p)) ELSE <<>>
         IN  IF InSeq(oldKeys, seg.key) THEN IndexIn(oldKeys, seg.key)
             ELSE Len(oldKeys) + IndexIn(newKeys, seg.key)
\* l1 is visited before l2: l1 is an ancestor of l2, or at the first place
\* where they part l1 takes the child of lower rank
VisitedBefore(o, n, l1, l2) ==
    LET same == {k \in 0..Len(l1) : k <= Len(l2) /\ SubSeq(l1, 1, k) = SubSeq(l2, 1, k)}
        c == CHOOSE k \in same : \A j \in same : j <= k
    IN  /\ l1 # l2
        /\ \/ c = Len(l1)
           \/ /\ c < Len(l1)
              /\ c < Len(l2)
              /\ SegRank(o, n, SubSeq(l1, 1, c), l1[c + 1]) < SegRank(o, n, SubSeq(l1, 1, c), l2[c + 1])
LocationOf(o, n, path) == CHOOSE l \in Locations(o) \cup Locations(n) : PathOf(l) = path

\* C12 (ordering): in each of the four lists of a result, a record that
\* stands before another one has a path the traversal visits first:
\* depth-first pre-order, the keys of the old object in their order, then
\* the keys of the new object only in theirs, array indices ascending.
TraversalOrder ==
    \A i \in DOMAIN calls :
        \A name \in ListNames :
            LET list == calls[i].changes[name] IN
            \A x, y \in DOMAIN list :
                x < y => VisitedBefore(calls[i].oldObj, calls[i].newObj,
                                       LocationOf(calls[i].oldObj, calls[i].newObj, list[x].path),
                                       LocationOf(calls[i].oldObj, calls[i].newObj, list[y].path))
\* two objects with the same two keys in opposite orders were compared, and
\* one list holds both keys
TraversalOrderWitness ==
    \E i \in DOMAIN calls :
        /\ calls[i].oldObj.kind = "object"
        /\ calls[i].newObj.kind = "object"
        /\ ObjectKeys(calls[i].oldObj) = <<"b", "a">>
        /\ ObjectKeys(calls[i].newObj) = <<"a", "b">>
        /\ \E name \in ListNames : Len(calls[i].changes[name]) = 2

Reported == calls[report.of].changes

\* C15 (statistics identity): the statistics of a result report the lengths
\* of its four lists as added, removed, modified and unchanged, and the sum
\* of the first three, without the unchanged records, as totalChanges.
StatisticsIdentity ==
    report.kind = "stats" =>
        /\ report.stats.added = Len(Reported.added)
        /\ report.stats.removed = Len(Reported.removed)
        /\ report.stats.modified = Len(Reported.modified)
        /\ report.stats.unchanged = Len(Reported.unchanged)
        /\ report.stats.totalChanges
             = Len(Reported.added) + Len(Reported.removed) + Len(Reported.modified)
\* statistics of a result with records in each of the four lists
StatisticsIdentityWitness ==
    /\ report.kind = "stats"
    /\ \A name \in ListNames : Len(Reported[name]) >= 2
    /\ report.stats.totalChanges < Cardinality(Entries(Reported))

AbsoluteValue(x) == IF x >= 0 THEN x ELSE 0 - x

\* C16 (change percentage): changePercentage is 0 for a result without
\* records; otherwise it is an integer of 0..100 at most one half away from
\* 100 * totalChanges / (totalChanges + unchanged).
ChangePercentage ==
    report.kind = "stats" =>
        LET changed == Len(Reported.added) + Len(Reported.removed) + Len(Reported.modified)
            total == changed + Len(Reported.unchanged)
            p == report.stats.changePercentage
        IN  /\ p \in 0..100
            /\ total = 0 => p = 0
            /\ total > 0 => 2 * AbsoluteValue(100 * changed - p * total) <= total
\* 4 changes and 22 unchanged records gave 15
ChangePercentageWitness ==
    /\ report.kind = "stats"
    /\ report.stats.totalChanges = 4
    /\ report.stats.unchanged = 22
    /\ report.stats.changePercentage = 15

\* the descriptors of one type among the reported ones, in their order
OfType(type) == SelectSeq(report.queries, LAMBDA q : q.type = type)

\* C17 (descriptors are a projection): the descriptors are as many as the
\* added, removed and modified records together; the additions are, one for
\* one, the added records with their paths and values, the deletions the
\* removed records, the modifications the modified records with both
\* values; no descriptor is of another type.
DescriptorsProjectChanges ==
    report.kind = "queries" =>
        /\ Len(report.queries)
             = Len(Reported.added) + Len(Reported.removed) + Len(Reported.modified)
        /\ \A k \in DOMAIN report.queries :
              report.queries[k].type \in {"addition", "deletion", "modification"}
        /\ Len(OfType("addition")) = Len(Reported.added)
        /\ {[path |-> q.path, value |-> q.value] : q \in Range(OfType("addition"))}
             = PathValues(Reported.added)
        /\ Len(OfType("deletion")) = Len(Reported.removed)
        /\ {[path |-> q.path, value |-> q.oldValue] : q \in Range(OfType("deletion"))}
             = PathValues(Reported.removed)
        /\ Len(OfType("modification")) = Len(Reported.modified)
        /\ {[path |-> q.path, oldValue |-> q.oldValue, newValue |-> q.newValue]
              : q \in Range(OfType("modification"))}
             = {[path |-> r.path, oldValue |-> r.oldValue, newValue |-> r.newValue]
                  : r \in Range(Reported.modified)}
\* descriptors of a result with added, removed, modified and unchanged records
DescriptorsWitness ==
    /\ report.kind = "queries"
    /\ \A name \in ListNames : Reported[name] # <<>>
    /\ \E k \in DOMAIN report.queries : report.queries[k].type = "deletion"

\* the position of the descriptor of the record with the path `path`
DescriptorAt(path) == CHOOSE k \in DOMAIN report.queries : report.queries[k].path = path
Changed(ch) == {e \in Entries(ch) : e.list # "unchanged"}

\* C18 as claimed (descriptor ordering): of two added, removed or modified
\* records, the one the comparator emitted first (the one whose path the
\* traversal visits first) has its descriptor first.
DescriptorsInEmissionOrder ==
    report.kind = "queries" =>
        \A e1, e2 \in Changed(Reported) :
            LET o == calls[report.of].oldObj
                n == calls[report.of].newObj
            IN  VisitedBefore(o, n, LocationOf(o, n, e1.rec.path), LocationOf(o, n, e2.rec.path))
                    => DescriptorAt(e1.rec.path) < DescriptorAt(e2.rec.path)

\* C18 as amended: the descriptors of the records of one list stand in the
\* order of that list, and every addition stands before every deletion,
\* every deletion before every modification.
DescriptorsInListOrder ==
    report.kind = "queries" =>
        /\ [k \in DOMAIN OfType("addition") |-> OfType("addition")[k].path]
             = [k \in DOMAIN Reported.added |-> Reported.added[k].path]
        /\ [k \in DOMAIN OfType("deletion") |-> OfType("deletion")[k].path]
             = [k \in DOMAIN Reported.removed |-> Reported.removed[k].path]
        /\ [k \in DOMAIN OfType("modification") |-> OfType("modification")[k].path]
             = [k \in DOMAIN Reported.modified |-> Reported.modified[k].path]
        /\ \A j, k \in DOMAIN report.queries :
              (\/ report.queries[j].type = "addition" /\ report.queries[k].type # "addition"
               \/ report.queries[j].type = "deletion" /\ report.queries[k].type = "modification")
                  => j < k
\* descriptors of a result whose first emitted record is modified and is
\* followed by two removed ones
DescriptorsInListOrderWitness ==
    /\ report.kind = "queries"
    /\ Len(Reported.removed) = 2
    /\ Len(Reported.modified) = 1
    /\ LET o == calls[report.of].oldObj
           n == calls[report.of].newObj
       IN  VisitedBefore(o, n, LocationOf(o, n, Reported.modified[1].path),
                         LocationOf(o, n, Reported.removed[1].path))

(***************************************************************************)
(* Properties of the sessions.                                             *)
(***************************************************************************)
\* C19 (session cap): no handler leaves more than maxSessions sessions in
\* the list; a session saved or imported when the list holds maxSessions
\* sessions becomes the first one, the others follow in their order, and
\* the one that was last is dropped.
SessionCap ==
    [][/\ Len(sessions') <= maxSessions
       /\ (/\ Len(sessions) = maxSessions
           /\ outcome'.op \in {"saveSession", "importSession"}
           /\ outcome'.result \in {"saved", "imported"})
          => /\ Len(sessions') = maxSessions
             /\ sessions'[1].id = outcome'.id
             /\ Tail(sessions') = SubSeq(sessions, 1, maxSessions - 1)]_vars
\* a session was saved into a full list, from which none was deleted: the
\* list is full and the first session saved is no longer in it
SessionCapWitness ==
    /\ outcome.op = "saveSession"
    /\ outcome.result = "saved"
    /\ budget.ids > maxSessions
    /\ Len(sessions) = maxSessions
    /\ sessions[1].id = outcome.id
    /\ \A i \in DOMAIN sessions : sessions[i].id # generateId(1)

\* C20 as claimed (save and restore): when loadSession has run for a stored
\* session that holds an input document, an output document and a diff, it
\* has ended without error and the store holds the session's documents,
\* validation results, diff and statistics.
SessionRoundTrip ==
    (outcome.op = "loadSession" /\ HasSession(getSessions(sessions), outcome.id)) =>
        LET session == findSession(getSessions(sessions), outcome.id)
        IN  (Truthy(session.inputJSON) /\ Truthy(session.outputJSON) /\ session.diffResult # Null)
                => /\ outcome.result = "loaded"
                   /\ store.inputJSON = session.inputJSON
                   /\ store.outputJSON = session.outputJSON
                   /\ store.inputValidation = session.inputValidation
                   /\ store.outputValidation = session.outputValidation
                   /\ store.diffResult = session.diffResult
                   /\ store.diffStats = session.diffStats


(***************************************************************************)
(* Equality and coverage.                                                  *)
(***************************************************************************)
\* deep equality of two JSON values: same kinds, same key sets whatever the
\* order of the keys, same array lengths, strictly equal primitives
RECURSIVE DeepEqual(_, _)
DeepEqual(x, y) ==
    IF x.kind # y.kind THEN FALSE
    ELSE IF x.kind = "null" THEN TRUE
    ELSE IF x.kind = "primitive" THEN x.jstype = y.jstype /\ x.val = y.val
    ELSE IF x.kind = "array" THEN
        /\ Len(x.items) = Len(y.items)
        /\ \A i \in 1..Len(x.items) : DeepEqual(x.items[i], y.items[i])
    ELSE
        /\ KeySet(x) = KeySet(y)
        /\ \A k \in KeySet(x) : DeepEqual(Get(x, k), Get(y, k))

NoChangeReported(ch) == ch.added = <<>> /\ ch.removed = <<>> /\ ch.modified = <<>>

\* C26 (no reported change means equal documents): a call compare(X, Y)
\* returns empty added, removed and modified sequences if and only if X and
\* Y are deeply equal: same kinds, same key sets whatever the key order,
\* same array lengths, strictly equal primitives.
NoChangeIffEqual ==
    \A i \in DOMAIN calls :
        NoChangeReported(calls[i].changes) <=> DeepEqual(calls[i].oldObj, calls[i].newObj)

\* a call was made on two different documents that are deeply equal (their
\* keys are in another order) and reported no change
NoChangeIffEqualWitness ==
    \E i \in DOMAIN calls :
        /\ calls[i].oldObj # calls[i].newObj
        /\ DeepEqual(calls[i].oldObj, calls[i].newObj)
        /\ NoChangeReported(calls[i].changes)
        /\ Len(calls[i].changes.unchanged) = 2

\* the non-null primitive leaves of a document
PrimitiveLeafLocations(v) == {l \in Locations(v) : ValueAt(v, l).kind = "primitive"}
\* the records of the lists `names` of a result that account for the leaf at
\* the location l: the ones at the leaf's path or at an ancestor of it
Accounting(ch, names, l) ==
    {e \in Entries(ch) : e.list \in names /\ AtOrBelow(e.rec.path, PathOf(l))}

\* C27 (complete coverage): for a call compare(X, Y), every non-null
\* primitive leaf of X is accounted for by exactly one record among removed,
\* modified and unchanged whose path is the leaf's path or an ancestor of
\* it, and every non-null primitive leaf of Y by exactly one record among
\* added, modified and unchanged.
CompleteCoverage ==
    \A i \in DOMAIN calls :
        LET c == calls[i] IN
        /\ \A l \in PrimitiveLeafLocations(c.oldObj) :
              Cardinality(Accounting(c.changes, {"removed", "modified", "unchanged"}, l)) = 1
        /\ \A l \in PrimitiveLeafLocations(c.newObj) :
              Cardinality(Accounting(c.changes, {"added", "modified", "unchanged"}, l)) = 1

\* a call was made in which a leaf of the old document is accounted for by
\* a removed record above it, and a call in which a leaf of the new
\* document is accounted for by an added record above it
CompleteCoverageWitness ==
    /\ \E i \in DOMAIN calls :
          \E l \in PrimitiveLeafLocations(calls[i].oldObj) :
              \E e \in Accounting(calls[i].changes, {"removed"}, l) : e.rec.path # PathOf(l)
    /\ \E j \in DOMAIN calls :
          \E l \in PrimitiveLeafLocations(calls[j].newObj) :
              \E e \in Accounting(calls[j].changes, {"added"}, l) : e.rec.path # PathOf(l)


(***************************************************************************)
(* Properties of the store and of the file library.                        *)
(***************************************************************************)
BothSelected ==
    /\ store.selectedLeftFile # NoFile /\ HasFile(store, store.selectedLeftFile)
    /\ store.selectedRightFile # NoFile /\ HasFile(store, store.selectedRightFile)

\* C21 (auto-compare): when FileLibrary.selectFile has made both a left and
\* a right file of the library selected, the selection has completed
\* without error and the store holds the left file's content as inputJSON,
\* the right file's content as outputJSON, and diffResult equal to
\* compare(left content, right content).
AutoCompare ==
    (outcome.op = "selectFile" /\ BothSelected) =>
        LET leftFile == getFileById(store, store.selectedLeftFile)
            rightFile == getFileById(store, store.selectedRightFile)
        IN  /\ outcome.result = "selected"
            /\ store.inputJSON = leftFile.content
            /\ store.outputJSON = rightFile.content
            /\ store.diffResult = compare(leftFile.content, rightFile.content)

DiffNeverStale ==
    /\ (store.diffResult # Null) <=> (store.inputJSON # Null /\ store.outputJSON # Null)
    /\ store.diffResult # Null =>
          /\ store.diffResult = compare(store.inputJSON, store.outputJSON)
          /\ store.diffStats = calculateStats(store.diffResult)

\* C25 (subscribers never observe a stale diff): in every state the store
\* has called its listeners with, a non-null diffResult equals compare of
\* the inputJSON and the outputJSON of that same state.
SubscribersSeeFreshDiff ==
    \A i \in DOMAIN notified :
        notified[i].diffResult # Null =>
            notified[i].diffResult = compare(notified[i].inputJSON, notified[i].outputJSON)

\* C28 (selections refer to library files): selectedLeftFile and
\* selectedRightFile are each null or the id of a file of uploadedFiles.
SelectionsInLibrary ==
    /\ store.selectedLeftFile = NoFile \/ HasFile(store, store.selectedLeftFile)
    /\ store.selectedRightFile = NoFile \/ HasFile(store, store.selectedRightFile)


(***************************************************************************)
(* Properties of DiffNavigation, API and DiffSearch.                       *)
(***************************************************************************)
\* C23 (change navigation is sequential and cyclic): with N >= 1 changes
\* built, currentIndex is within 0..N-1 after any next, previous and
\* jumpToType, so that the position shown, currentIndex + 1, is between 1
\* and N; next has moved from i to (i+1) mod N and previous from i to
\* (i-1) mod N; with N = 0 the index is -1 and next and previous have
\* changed nothing.
NavigationCyclic ==
    LET N == Len(nav.changes)
        i == outcome.from
    IN  /\ N >= 1 => nav.currentIndex \in 0..(N - 1) /\ nav.currentIndex + 1 \in 1..N
        /\ N = 0 => nav.currentIndex = -1
        /\ (N >= 1 /\ outcome.op = "next") => nav.currentIndex = (i + 1) % N
        /\ (N >= 1 /\ outcome.op = "previous") => nav.currentIndex = (i - 1) % N
        /\ (N = 0 /\ outcome.op \in {"next", "previous"}) => i = -1

\* three changes are navigated, of the three types, and previous has moved
\* from the first change to the last
NavigationCyclicWitness ==
    /\ Len(nav.changes) = 3
    /\ {nav.changes[k].type : k \in 1..3} = {"added", "removed", "modified"}
    /\ outcome.op = "previous"
    /\ outcome.from = 0
    /\ nav.currentIndex = 2

\* C29 (the loading flag tracks the requests in flight): apiLoading is true
\* while a request started by send awaits its response and false once every
\* request has finished, with success or with an error; a send rejected for
\* missing input, missing endpoint or invalid input has not set it.
LoadingTracksRequests ==
    /\ pending # {} => store.apiLoading
    /\ pending = {} => ~store.apiLoading
    /\ (outcome.op = "send" /\ outcome.result = "rejected") => notified = <<>>

\* C30 (the search match index stays valid): currentMatchIndex is -1 when
\* matchedResults is empty and within 0..len(matchedResults)-1 otherwise,
\* and matchedResults holds only changes of the current diff that match the
\* current query.
MatchIndexValid ==
    /\ search.matchedResults = <<>> => search.currentMatchIndex = -1
    /\ search.matchedResults # <<>> =>
          search.currentMatchIndex \in 0..(Len(search.matchedResults) - 1)
    /\ \A k \in DOMAIN search.matchedResults :
          /\ store.diffResult # Null
          /\ \E j \in DOMAIN allChanges(store.diffResult) :
                allChanges(store.diffResult)[j] = search.matchedResults[k]
          /\ matchesQuery(search.matchedResults[k], search.currentQuery)

====
